---- MODULE Spec2Model ----
(***************************************************************************)
(* Model of the tax-credit assessment service (src/src/index.tsx): the     *)
(* rule dispatcher assessRule, its nineteen evaluators and the aggregation *)
(* loop of POST /api/assess; the handlers POST /api/companies, POST        *)
(* /api/assess and GET /api/results with their database statements; and    *)
(* the step wizard of the input form.                                      *)
(*                                                                         *)
(* Numbers.  The code computes with JavaScript numbers.  Inputs are        *)
(* integers (head counts, Won amounts, years); every rate of the code is a *)
(* whole percentage and no value is multiplied by more than two rates, so  *)
(* every computed amount is an exact multiple of 1/10000.  An amount is    *)
(* modelled as a record [w, f] standing for w + f/10000 with 0 <= f <      *)
(* 10000; w alone stays inside TLC's 32-bit integers.  Binary rounding of  *)
(* IEEE doubles is not modelled.                                           *)
(*                                                                         *)
(* Strings.  The Korean literals of the code are written as ASCII tags:    *)
(* "SME" = '중소기업', "MID" = '중견기업', "LARGE" = '대기업'; the literal *)
(* each tag stands for is given where it is introduced.  A reasons string  *)
(* is modelled by a tag that names its literal or template; "" would be    *)
(* the empty string.                                                       *)
(***************************************************************************)
EXTENDS Integers, Sequences, FiniteSets, TLC

VARIABLES
    clockYear,          \* the year new Date().getFullYear() returns now
    pc,                 \* position of the /api/assess handler
    ctx,                \* the evaluation context of the current run
    order,              \* catalog positions in the order the run visits them
    results,            \* const results: any[]   (index.tsx:115)
    totalCreditAmount,  \* let totalCreditAmount  (index.tsx:116)
    eligibleCount,      \* let eligibleCount      (index.tsx:117)
    peer,               \* observer: the run of the same context this run is compared with
    calledRule,         \* dispatcher call: the rule handed to assessRule
    outcome,            \* dispatcher call: what assessRule returned
    invoked,            \* dispatcher call: the evaluator the switch selected
    companies,              \* table companies, in id order
    assessment_results,     \* table assessment_results
    assessment_sessions,    \* table assessment_sessions, in id order
    registrations,          \* invocations of the POST /api/companies handler
    assessments,            \* invocations of the POST /api/assess handler
    queries,                \* invocations of the GET /api/results handler
    currentStep,            \* wizard: let currentStep   (part_000:1691)
    companyId,              \* wizard: let companyId     (part_000:1693), 0 for null
    calls,                  \* wizard: the calls of the page's functions
    sent                    \* wizard: the bodies POSTed to /api/assess

engineVars == <<clockYear, pc, ctx, order, results, totalCreditAmount, eligibleCount,
                peer, calledRule, outcome, invoked>>

serverVars == <<companies, assessment_results, assessment_sessions, registrations,
                assessments, queries>>

wizardVars == <<currentStep, companyId, calls, sent>>

vars == <<engineVars, serverVars, wizardVars>>

\* an empty database and no request in flight
ServerIdle ==
    /\ companies = <<>>
    /\ assessment_results = {}
    /\ assessment_sessions = <<>>
    /\ registrations = <<>>
    /\ assessments = <<>>
    /\ queries = <<>>

\* the page as loaded: showStep(1), no company registered, nothing called
WizardIdle ==
    /\ currentStep = 1
    /\ companyId = 0
    /\ calls = <<>>
    /\ sent = <<>>

----------------------------------------------------------------------------
(* Amounts: w + f/10000 *)

Scale == 100 * 100

Norm(w, f) == [w |-> w + (f \div Scale), f |-> f % Scale]

Num(n) == [w |-> n, f |-> 0]

Zero == Num(0)

Add(x, y) == Norm(x.w + y.w, x.f + y.f)

Sub(x, y) == Norm(x.w - y.w, x.f - y.f)

Lt(x, y) == x.w < y.w \/ (x.w = y.w /\ x.f < y.f)

\* Math.min
MathMin(x, y) == IF Lt(y, x) THEN y ELSE x

\* x * n for an integer n
MulInt(x, n) == Norm(x.w * n, x.f * n)

\* x * (p / 100): the product with a rate written in the code as a decimal
\* fraction (0.25 is p = 25, 1.0 is p = 100).  The whole part is split in
\* hundreds so that no intermediate product leaves 32 bits.
MulPct(x, p) ==
    LET q == x.w \div 100
        r == x.w % 100
    IN  Norm(q * p + ((r * p) \div 100),
             ((r * p) % 100) * (Scale \div 100) + ((x.f * p) \div 100))

IsInteger(x) == x.f = 0

IsNonNegative(x) == x.w >= 0

----------------------------------------------------------------------------
(* Outcomes: interface AssessmentResult *)

Outcome(e, c, r, d) == [eligible |-> e, creditAmount |-> c, reasons |-> r, details |-> d]

\* details: {}
EmptyDetails == [kind |-> "empty"]

\* a numeric field is falsy when it is 0 (or missing, which is modelled as 0)
Truthy(n) == n # 0

\* x || 0 for a numeric field
OrZero(n) == IF Truthy(n) THEN n ELSE 0

----------------------------------------------------------------------------
(* Rules 1-5: the employment bundle                                        *)
(* data = [present, employee_increase, youth_employees,                    *)
(*         disabled_employees, career_break_women, insurance_paid];        *)
(* present = FALSE is an employmentData that is undefined or null.         *)

\* assessEmploymentIncrease with the two columns of the table exchanged
assessEmploymentIncreaseSwapped(rule, company, data) ==
    IF ~data.present \/ ~Truthy(data.employee_increase) \/ data.employee_increase < 1
    THEN Outcome(FALSE, Zero, "no_employee_increase",
                 [employee_increase |->
                     IF data.present THEN OrZero(data.employee_increase) ELSE 0])
    ELSE LET companyType == company.company_type
             isCapitalArea == company.is_capital_area = 1
             perPersonCredit ==
                 IF companyType = "SME" THEN (IF isCapitalArea THEN 12000000 ELSE 11000000)
                 ELSE IF companyType = "MID" THEN (IF isCapitalArea THEN 10000000 ELSE 9000000)
                 ELSE (IF isCapitalArea THEN 5000000 ELSE 4500000)
             totalCredit == MulInt(Num(perPersonCredit), data.employee_increase)
         IN  Outcome(TRUE, totalCredit, "employment_increase_credit",
                     [company_type |-> companyType, is_capital_area |-> isCapitalArea,
                      employee_increase |-> data.employee_increase,
                      per_person_credit |-> perPersonCredit,
                      total_credit |-> totalCredit])

\* 1. employment increase
assessEmploymentIncrease(rule, company, data) ==
    IF ~data.present \/ ~Truthy(data.employee_increase) \/ data.employee_increase < 1
    THEN Outcome(FALSE, Zero, "no_employee_increase",
                 [employee_increase |->
                     IF data.present THEN OrZero(data.employee_increase) ELSE 0])
    ELSE LET companyType == company.company_type
             isCapitalArea == company.is_capital_area = 1
             increase == data.employee_increase
             perPersonCredit ==
                 IF companyType = "SME" THEN (IF isCapitalArea THEN 11000000 ELSE 12000000)
                 ELSE IF companyType = "MID" THEN (IF isCapitalArea THEN 9000000 ELSE 10000000)
                 ELSE (IF isCapitalArea THEN 4500000 ELSE 5000000)
             totalCredit == MulInt(Num(perPersonCredit), increase)
         IN  Outcome(TRUE, totalCredit, "employment_increase_credit",
                     [company_type |-> companyType, is_capital_area |-> isCapitalArea,
                      employee_increase |-> increase, per_person_credit |-> perPersonCredit,
                      total_credit |-> totalCredit])

\* assessYouthEmployment paying 1,000,000 less per head in the capital region
assessYouthEmploymentByRegion(rule, company, data) ==
    IF ~data.present \/ ~Truthy(data.youth_employees) \/ data.youth_employees < 1
    THEN Outcome(FALSE, Zero, "no_youth_increase", EmptyDetails)
    ELSE LET companyType == company.company_type
             base == IF companyType = "SME" THEN 12000000
                     ELSE IF companyType = "MID" THEN 10000000
                     ELSE 5000000
             additionalCredit == IF company.is_capital_area = 1 THEN base - 1000000 ELSE base
             totalCredit == MulInt(Num(additionalCredit), data.youth_employees)
         IN  Outcome(TRUE, totalCredit, "youth_employment_credit",
                     [company_type |-> companyType, youth_increase |-> data.youth_employees,
                      additional_credit |-> additionalCredit, total_credit |-> totalCredit])

\* 2. youth regular employment
assessYouthEmployment(rule, company, data) ==
    IF ~data.present \/ ~Truthy(data.youth_employees) \/ data.youth_employees < 1
    THEN Outcome(FALSE, Zero, "no_youth_increase", EmptyDetails)
    ELSE LET companyType == company.company_type
             youthIncrease == data.youth_employees
             additionalCredit ==
                 IF companyType = "SME" THEN 12000000
                 ELSE IF companyType = "MID" THEN 10000000
                 ELSE 5000000
             totalCredit == MulInt(Num(additionalCredit), youthIncrease)
         IN  Outcome(TRUE, totalCredit, "youth_employment_credit",
                     [company_type |-> companyType, youth_increase |-> youthIncrease,
                      additional_credit |-> additionalCredit, total_credit |-> totalCredit])

\* assessDisabledEmployment with the guard reading < 0 for < 1
assessDisabledEmploymentOffByOne(rule, company, data) ==
    IF data.present /\ data.disabled_employees < 0
    THEN Outcome(FALSE, Zero, "no_disabled_employees", EmptyDetails)
    ELSE LET totalCredit == MulInt(Num(9600000), data.disabled_employees)
         IN  Outcome(TRUE, totalCredit, "disabled_employment_credit",
                     [disabled_count |-> data.disabled_employees,
                      per_person_credit |-> 9600000, total_credit |-> totalCredit])

\* 3. disabled employment
assessDisabledEmployment(rule, company, data) ==
    IF ~data.present \/ ~Truthy(data.disabled_employees) \/ data.disabled_employees < 1
    THEN Outcome(FALSE, Zero, "no_disabled_employees", EmptyDetails)
    ELSE LET disabledCount == data.disabled_employees
             perPersonCredit == 9600000
             totalCredit == MulInt(Num(perPersonCredit), disabledCount)
         IN  Outcome(TRUE, totalCredit, "disabled_employment_credit",
                     [disabled_count |-> disabledCount, per_person_credit |-> perPersonCredit,
                      total_credit |-> totalCredit])

\* assessCareerBreakWomen counting at most max_years heads
assessCareerBreakWomenCapped(rule, company, data) ==
    IF ~data.present \/ ~Truthy(data.career_break_women) \/ data.career_break_women < 1
    THEN Outcome(FALSE, Zero, "no_career_break_women", EmptyDetails)
    ELSE LET count == data.career_break_women
             totalCredit == MulInt(Num(11000000), IF count > 2 THEN 2 ELSE count)
         IN  Outcome(TRUE, totalCredit, "career_break_women_credit",
                     [count |-> count, per_person_credit |-> 11000000,
                      total_credit |-> totalCredit, max_years |-> 2])

\* 4. career-break women
assessCareerBreakWomen(rule, company, data) ==
    IF ~data.present \/ ~Truthy(data.career_break_women) \/ data.career_break_women < 1
    THEN Outcome(FALSE, Zero, "no_career_break_women", EmptyDetails)
    ELSE LET count == data.career_break_women
             perPersonCredit == 11000000
             totalCredit == MulInt(Num(perPersonCredit), count)
         IN  Outcome(TRUE, totalCredit, "career_break_women_credit",
                     [count |-> count, per_person_credit |-> perPersonCredit,
                      total_credit |-> totalCredit, max_years |-> 2])

\* assessSocialInsurance without the per-head ceiling
assessSocialInsuranceUncapped(rule, company, data) ==
    IF company.company_type # "SME"
    THEN Outcome(FALSE, Zero, "sme_only", EmptyDetails)
    ELSE IF ~data.present \/ ~Truthy(data.insurance_paid) \/ data.insurance_paid < 1
    THEN Outcome(FALSE, Zero, "no_insurance_paid", EmptyDetails)
    ELSE LET totalCredit == MulPct(Num(data.insurance_paid), 25)
         IN  Outcome(TRUE, totalCredit, "social_insurance_credit",
                     [insurance_paid |-> data.insurance_paid, credit_rate |-> 25,
                      new_employees |->
                          OrZero(data.employee_increase) + OrZero(data.youth_employees),
                      total_credit |-> totalCredit])

\* 5. social insurance
assessSocialInsurance(rule, company, data) ==
    IF company.company_type # "SME"
    THEN Outcome(FALSE, Zero, "sme_only", EmptyDetails)
    ELSE IF ~data.present \/ ~Truthy(data.insurance_paid) \/ data.insurance_paid < 1
    THEN Outcome(FALSE, Zero, "no_insurance_paid", EmptyDetails)
    ELSE LET insurancePaid == data.insurance_paid
             creditRate == 25
             maxPerPerson == 1000000
             raw == MulPct(Num(insurancePaid), creditRate)
             newEmployees == OrZero(data.employee_increase) + OrZero(data.youth_employees)
             maxCredit == Num(maxPerPerson * newEmployees)
             totalCredit == IF Lt(maxCredit, raw) THEN maxCredit ELSE raw
         IN  Outcome(TRUE, totalCredit, "social_insurance_credit",
                     [insurance_paid |-> insurancePaid, credit_rate |-> creditRate,
                      new_employees |-> newEmployees, total_credit |-> totalCredit])

----------------------------------------------------------------------------
(* Rules 6-10, 18, 19: the "other" bundle                                  *)
(* data = [present, business_income, has_calculated_tax, calculated_tax,   *)
(*         startup_date, is_youth_startup, relocation_completed,           *)
(*         certification, certification_type, founder_age, donation_amount,*)
(*         donation_type, vehicle_count, depreciation_expense,             *)
(*         rental_expense, fuel_expense].                                  *)
(* has_calculated_tax tells whether the request body carries a             *)
(* calculated_tax key; a body without the key reads as calculated_tax = 0. *)
(* No evaluator can read it: data.calculated_tax || ... treats a missing   *)
(* key and the number 0 alike.                                             *)
(* startup_date is the year parseInt(startup_date.split('-')[0]) yields    *)
(* for a 'YYYY-MM-DD' string, and 0 for a null or empty startup_date.      *)
(* certification_type and donation_type are "" when missing.               *)

\* the industries of the 10% reduction: ['제조업', '광업', '건설업', '도매업', '소매업']
ReducedIndustries == {"manufacturing", "mining", "construction", "wholesale", "retail"}

\* 6. SME special reduction
assessSmeSpecialReduction(rule, company, data) ==
    IF company.company_type # "SME"
    THEN Outcome(FALSE, Zero, "sme_only", EmptyDetails)
    ELSE IF ~data.present \/ ~Truthy(data.business_income)
    THEN Outcome(FALSE, Zero, "no_business_income", EmptyDetails)
    ELSE LET industry == company.industry
             income == data.business_income
             tax == IF Truthy(data.calculated_tax) THEN Num(data.calculated_tax)
                    ELSE MulPct(Num(income), 10)
             reductionRate == IF industry \in ReducedIndustries THEN 10 ELSE 5
             totalCredit == MulPct(tax, reductionRate)
         IN  Outcome(TRUE, totalCredit, "sme_special_reduction",
                     [industry |-> industry, business_income |-> income,
                      calculated_tax |-> tax, reduction_rate |-> reductionRate,
                      total_credit |-> totalCredit])

\* assessStartupSmeReduction rejecting the fifth year as well (>= 5 for > 5)
assessStartupSmeReductionFourYears(rule, company, data) ==
    IF ~data.present \/ ~Truthy(data.startup_date)
    THEN Outcome(FALSE, Zero, "no_startup_info", EmptyDetails)
    ELSE LET yearsFromStartup == clockYear - data.startup_date
         IN  IF yearsFromStartup >= 5
             THEN Outcome(FALSE, Zero, "startup_over_5_years", EmptyDetails)
             ELSE LET reductionRate == IF data.is_youth_startup THEN 100 ELSE 50
                      totalCredit == MulPct(Num(OrZero(data.calculated_tax)), reductionRate)
                  IN  Outcome(TRUE, totalCredit, "startup_reduction",
                              [startup_year |-> data.startup_date,
                               years_from_startup |-> yearsFromStartup,
                               reduction_rate |-> reductionRate,
                               total_credit |-> totalCredit])

\* 7. startup SME reduction; currentYear = new Date().getFullYear()
assessStartupSmeReduction(rule, company, data) ==
    IF ~data.present \/ ~Truthy(data.startup_date)
    THEN Outcome(FALSE, Zero, "no_startup_info", EmptyDetails)
    ELSE LET startupYear == data.startup_date
             currentYear == clockYear
             yearsFromStartup == currentYear - startupYear
         IN  IF yearsFromStartup > 5
             THEN Outcome(FALSE, Zero, "startup_over_5_years", EmptyDetails)
             ELSE LET tax == Num(OrZero(data.calculated_tax))
                      isYouthStartup == data.is_youth_startup
                      reductionRate == IF isYouthStartup THEN 100 ELSE 50
                      totalCredit == MulPct(tax, reductionRate)
                  IN  Outcome(TRUE, totalCredit, "startup_reduction",
                              [startup_year |-> startupYear,
                               years_from_startup |-> yearsFromStartup,
                               reduction_rate |-> reductionRate,
                               total_credit |-> totalCredit])

\* assessManufacturingRelocation without the capital-region test
assessManufacturingRelocationAnywhere(rule, company, data) ==
    IF ~data.present \/ ~data.relocation_completed
    THEN Outcome(FALSE, Zero, "no_relocation_info", EmptyDetails)
    ELSE IF company.industry # "manufacturing"
    THEN Outcome(FALSE, Zero, "manufacturing_only", EmptyDetails)
    ELSE LET totalCredit == MulPct(Num(OrZero(data.calculated_tax)), 100)
         IN  Outcome(TRUE, totalCredit, "relocation_reduction",
                     [total_credit |-> totalCredit])

\* 8. manufacturing relocation
assessManufacturingRelocation(rule, company, data) ==
    IF ~data.present \/ ~data.relocation_completed
    THEN Outcome(FALSE, Zero, "no_relocation_info", EmptyDetails)
    ELSE IF company.industry # "manufacturing"
    THEN Outcome(FALSE, Zero, "manufacturing_only", EmptyDetails)
    ELSE IF company.is_capital_area = 1
    THEN Outcome(FALSE, Zero, "capital_to_region_only", EmptyDetails)
    ELSE LET tax == Num(OrZero(data.calculated_tax))
             totalCredit == MulPct(tax, 100)
         IN  Outcome(TRUE, totalCredit, "relocation_reduction",
                     [total_credit |-> totalCredit])

\* assessSocialEnterpriseReduction with the two rates exchanged
assessSocialEnterpriseReductionSwapped(rule, company, data) ==
    IF ~data.present \/ ~data.certification
    THEN Outcome(FALSE, Zero, "no_certification", EmptyDetails)
    ELSE LET certificationType ==
                 IF data.certification_type # "" THEN data.certification_type ELSE "coop"
             reductionRate == IF certificationType = "social" THEN 50 ELSE 100
             totalCredit == MulPct(Num(OrZero(data.calculated_tax)), reductionRate)
         IN  Outcome(TRUE, totalCredit, "social_enterprise_reduction",
                     [certification_type |-> certificationType,
                      reduction_rate |-> reductionRate, total_credit |-> totalCredit])

\* 9. social enterprise / cooperative; "coop" = '협동조합', "social" = '사회적기업'
assessSocialEnterpriseReduction(rule, company, data) ==
    IF ~data.present \/ ~data.certification
    THEN Outcome(FALSE, Zero, "no_certification", EmptyDetails)
    ELSE LET tax == Num(OrZero(data.calculated_tax))
             certificationType ==
                 IF data.certification_type # "" THEN data.certification_type ELSE "coop"
             reductionRate == IF certificationType = "social" THEN 100 ELSE 50
             totalCredit == MulPct(tax, reductionRate)
         IN  Outcome(TRUE, totalCredit, "social_enterprise_reduction",
                     [certification_type |-> certificationType,
                      reduction_rate |-> reductionRate, total_credit |-> totalCredit])

\* assessYouthStartupReduction without the ceiling of 200,000,000
assessYouthStartupReductionUncapped(rule, company, data) ==
    IF ~data.present \/ ~Truthy(data.founder_age) \/ data.founder_age > 34
    THEN Outcome(FALSE, Zero, "founder_not_34_or_younger", EmptyDetails)
    ELSE IF ~Truthy(data.startup_date)
    THEN Outcome(FALSE, Zero, "no_startup_info", EmptyDetails)
    ELSE LET yearsFromStartup == clockYear - data.startup_date
         IN  IF yearsFromStartup > 5
             THEN Outcome(FALSE, Zero, "startup_over_5_years", EmptyDetails)
             ELSE LET totalCredit == MulPct(Num(OrZero(data.calculated_tax)), 100)
                  IN  Outcome(TRUE, totalCredit, "youth_startup_reduction",
                              [founder_age |-> data.founder_age,
                               years_from_startup |-> yearsFromStartup,
                               total_credit |-> totalCredit])

\* 10. youth startup reduction; currentYear = new Date().getFullYear()
assessYouthStartupReduction(rule, company, data) ==
    IF ~data.present \/ ~Truthy(data.founder_age) \/ data.founder_age > 34
    THEN Outcome(FALSE, Zero, "founder_not_34_or_younger", EmptyDetails)
    ELSE IF ~Truthy(data.startup_date)
    THEN Outcome(FALSE, Zero, "no_startup_info", EmptyDetails)
    ELSE LET startupYear == data.startup_date
             currentYear == clockYear
             yearsFromStartup == currentYear - startupYear
         IN  IF yearsFromStartup > 5
             THEN Outcome(FALSE, Zero, "startup_over_5_years", EmptyDetails)
             ELSE LET tax == Num(OrZero(data.calculated_tax))
                      maxAmount == Num(200000000)
                      full == MulPct(tax, 100)
                      totalCredit == IF Lt(maxAmount, full) THEN maxAmount ELSE full
                  IN  Outcome(TRUE, totalCredit, "youth_startup_reduction",
                              [founder_age |-> data.founder_age,
                               years_from_startup |-> yearsFromStartup,
                               total_credit |-> totalCredit])

\* assessDonation without the income limit: the whole donation is eligible
assessDonationUnlimited(rule, company, data) ==
    IF ~data.present \/ ~Truthy(data.donation_amount)
    THEN Outcome(FALSE, Zero, "no_donation", EmptyDetails)
    ELSE LET donationAmount == Num(data.donation_amount)
             donationType ==
                 IF data.donation_type # "" THEN data.donation_type ELSE "designated"
             totalCredit == MulPct(donationAmount, 15)
         IN  Outcome(TRUE, totalCredit, "donation_credit",
                     [donation_type |-> donationType, donation_amount |-> donationAmount,
                      eligible_amount |-> donationAmount, total_credit |-> totalCredit])

\* 18. donations; "designated" = '지정기부금', "statutory" = '법정기부금'
assessDonation(rule, company, data) ==
    IF ~data.present \/ ~Truthy(data.donation_amount)
    THEN Outcome(FALSE, Zero, "no_donation", EmptyDetails)
    ELSE LET donationAmount == Num(data.donation_amount)
             donationType ==
                 IF data.donation_type # "" THEN data.donation_type ELSE "designated"
             income == Num(OrZero(data.business_income))
             limitRate == IF donationType = "statutory" THEN 100 ELSE 30
             creditRate == 15
             limit == MulPct(income, limitRate)
             eligibleAmount == MathMin(donationAmount, limit)
             totalCredit == MulPct(eligibleAmount, creditRate)
         IN  Outcome(TRUE, totalCredit, "donation_credit",
                     [donation_type |-> donationType, donation_amount |-> donationAmount,
                      eligible_amount |-> eligibleAmount, total_credit |-> totalCredit])

\* assessBusinessVehicle with the deductible total reported as the credit
assessBusinessVehicleCredited(rule, company, data) ==
    IF ~data.present \/ ~Truthy(data.vehicle_count) \/ data.vehicle_count < 1
    THEN Outcome(FALSE, Zero, "no_business_vehicle", EmptyDetails)
    ELSE LET depreciation == OrZero(data.depreciation_expense)
             rental == OrZero(data.rental_expense)
             fuel == OrZero(data.fuel_expense)
             depreciationLimit == 8000000 * data.vehicle_count
             rentalLimit == 12000000 * data.vehicle_count
             totalEligible ==
                 (IF depreciationLimit < depreciation THEN depreciationLimit ELSE depreciation)
                 + (IF rentalLimit < rental THEN rentalLimit ELSE rental) + fuel
         IN  Outcome(TRUE, Num(totalEligible), "business_vehicle_limit",
                     [total_eligible |-> totalEligible])

\* assessBusinessVehicle with the two per-vehicle limits exchanged
assessBusinessVehicleSwappedLimits(rule, company, data) ==
    IF ~data.present \/ ~Truthy(data.vehicle_count) \/ data.vehicle_count < 1
    THEN Outcome(FALSE, Zero, "no_business_vehicle", EmptyDetails)
    ELSE LET vehicleCount == data.vehicle_count
             depreciation == OrZero(data.depreciation_expense)
             rental == OrZero(data.rental_expense)
             fuel == OrZero(data.fuel_expense)
             depreciationLimit == 12000000 * vehicleCount
             rentalLimit == 8000000 * vehicleCount
             eligibleDepreciation ==
                 IF depreciationLimit < depreciation THEN depreciationLimit ELSE depreciation
             eligibleRental == IF rentalLimit < rental THEN rentalLimit ELSE rental
             totalEligible == eligibleDepreciation + eligibleRental + fuel
         IN  Outcome(TRUE, Zero, "business_vehicle_limit",
                     [vehicle_count |-> vehicleCount,
                      depreciation |-> [expense |-> depreciation, limit |-> depreciationLimit,
                                        eligible |-> eligibleDepreciation],
                      rental |-> [expense |-> rental, limit |-> rentalLimit,
                                  eligible |-> eligibleRental],
                      fuel |-> [expense |-> fuel, eligible |-> fuel],
                      total_eligible |-> totalEligible,
                      limit_exceeded |-> depreciation + rental + fuel - totalEligible])

\* 19. business vehicle expense limits
assessBusinessVehicle(rule, company, data) ==
    IF ~data.present \/ ~Truthy(data.vehicle_count) \/ data.vehicle_count < 1
    THEN Outcome(FALSE, Zero, "no_business_vehicle", EmptyDetails)
    ELSE LET vehicleCount == data.vehicle_count
             depreciation == OrZero(data.depreciation_expense)
             rental == OrZero(data.rental_expense)
             fuel == OrZero(data.fuel_expense)
             depreciationLimit == 8000000 * vehicleCount
             rentalLimit == 12000000 * vehicleCount
             eligibleDepreciation ==
                 IF depreciationLimit < depreciation THEN depreciationLimit ELSE depreciation
             eligibleRental == IF rentalLimit < rental THEN rentalLimit ELSE rental
             eligibleFuel == fuel
             totalEligible == eligibleDepreciation + eligibleRental + eligibleFuel
             totalExpense == depreciation + rental + fuel
             limitExceeded == totalExpense - totalEligible
         IN  Outcome(TRUE, Zero, "business_vehicle_limit",
                     [vehicle_count |-> vehicleCount,
                      depreciation |-> [expense |-> depreciation, limit |-> depreciationLimit,
                                        eligible |-> eligibleDepreciation],
                      rental |-> [expense |-> rental, limit |-> rentalLimit,
                                  eligible |-> eligibleRental],
                      fuel |-> [expense |-> fuel, eligible |-> eligibleFuel],
                      total_eligible |-> totalEligible,
                      limit_exceeded |-> limitExceeded])

----------------------------------------------------------------------------
(* Rules 11-14: the investment list                                        *)
(* data = [present, items], items a sequence of                            *)
(* [facility_type, investment_amount]; present = FALSE is an undefined or  *)
(* null investmentData.  facility_type "" is a missing tag.                *)
(* Tags: "automation" = '자동화설비', "info_system" = '정보시스템',        *)
(* "measurement" = '계측장비', "energy_saving" = '에너지절약시설',         *)
(* "greenhouse_gas" = '온실가스감축시설', "environmental" = '환경보전시설',*)
(* "fire_prevention" = '화재예방설비', "protective_gear" = '안전보호장구', *)
(* "workplace_improvement" = '작업환경개선설비',                           *)
(* "smart_factory" = '스마트공장', "smart_factory_mes" = a longer tag that *)
(* contains '스마트공장'.                                                  *)

\* items.reduce((sum, inv) => sum + (inv.investment_amount || 0), 0)
RECURSIVE SumInvestment(_)
SumInvestment(items) ==
    IF items = <<>> THEN 0
    ELSE OrZero(Head(items).investment_amount) + SumInvestment(Tail(items))

\* facility_type.includes('스마트공장'), over the tags of the model
IncludesSmartFactory(tag) == tag \in {"smart_factory", "smart_factory_mes"}

\* the part the four facility evaluators share line for line: the filtered
\* list, the minimum investment, the three rates (percent) and the reasons
FacilityCredit(company, relevantInvestments, minimum, smeRate, midRate, otherRate, noneReason, belowReason, okReason) ==
    IF Len(relevantInvestments) = 0
    THEN Outcome(FALSE, Zero, noneReason, EmptyDetails)
    ELSE LET totalInvestment == SumInvestment(relevantInvestments)
         IN  IF totalInvestment < minimum
             THEN Outcome(FALSE, Zero, belowReason, EmptyDetails)
             ELSE LET companyType == company.company_type
                      creditRate == IF companyType = "SME" THEN smeRate
                                    ELSE IF companyType = "MID" THEN midRate
                                    ELSE otherRate
                      totalCredit == MulPct(Num(totalInvestment), creditRate)
                  IN  Outcome(TRUE, totalCredit, okReason,
                              [total_investment |-> totalInvestment,
                               credit_rate |-> creditRate,
                               total_credit |-> totalCredit])

\* 11. productivity facilities
assessProductivityFacilities(rule, company, data) ==
    IF ~data.present \/ Len(data.items) = 0
    THEN Outcome(FALSE, Zero, "no_productivity_investment", EmptyDetails)
    ELSE LET keep(inv) == inv.facility_type # "" /\
                 inv.facility_type \in {"automation", "info_system", "measurement"}
         IN  FacilityCredit(company, SelectSeq(data.items, keep), 10000000, 10, 5, 3,
                            "no_matching_facility", "investment_below_10m",
                            "productivity_credit")

\* 12. energy-saving / environmental facilities
assessEnergyEnvironmentFacilities(rule, company, data) ==
    IF ~data.present \/ Len(data.items) = 0
    THEN Outcome(FALSE, Zero, "no_energy_investment", EmptyDetails)
    ELSE LET keep(inv) == inv.facility_type # "" /\
                 inv.facility_type \in {"energy_saving", "greenhouse_gas", "environmental"}
         IN  FacilityCredit(company, SelectSeq(data.items, keep), 10000000, 10, 5, 3,
                            "no_matching_facility", "investment_below_10m",
                            "energy_environment_credit")

\* assessSafetyFacilities with the rate table of rules 11 and 12
assessSafetyFacilitiesLowMidRate(rule, company, data) ==
    IF ~data.present \/ Len(data.items) = 0
    THEN Outcome(FALSE, Zero, "no_safety_investment", EmptyDetails)
    ELSE LET keep(inv) == inv.facility_type # "" /\
                 inv.facility_type \in
                     {"fire_prevention", "protective_gear", "workplace_improvement"}
         IN  FacilityCredit(company, SelectSeq(data.items, keep), 10000000, 10, 5, 3,
                            "no_matching_facility", "investment_below_10m",
                            "safety_credit")

\* 13. safety facilities
assessSafetyFacilities(rule, company, data) ==
    IF ~data.present \/ Len(data.items) = 0
    THEN Outcome(FALSE, Zero, "no_safety_investment", EmptyDetails)
    ELSE LET keep(inv) == inv.facility_type # "" /\
                 inv.facility_type \in
                     {"fire_prevention", "protective_gear", "workplace_improvement"}
         IN  FacilityCredit(company, SelectSeq(data.items, keep), 10000000, 10, 7, 3,
                            "no_matching_facility", "investment_below_10m",
                            "safety_credit")

\* 14. smart factory
assessSmartFactory(rule, company, data) ==
    IF ~data.present \/ Len(data.items) = 0
    THEN Outcome(FALSE, Zero, "no_smart_factory_investment", EmptyDetails)
    ELSE LET keep(inv) == inv.facility_type # "" /\ IncludesSmartFactory(inv.facility_type)
         IN  FacilityCredit(company, SelectSeq(data.items, keep), 100000000, 15, 10, 5,
                            "no_smart_factory_facility", "investment_below_100m",
                            "smart_factory_credit")

----------------------------------------------------------------------------
(* Rules 15-17: the R&D list                                               *)
(* data = [present, items], items a sequence of [rnd_type, expense_amount]. *)
(* Tags: "general" = '일반연구개발비', "new_growth" =                      *)
(* '신성장동력연구개발비', "design" = '디자인개발비', "new_tech" =         *)
(* '신기술개발비'.                                                         *)

\* items.reduce((sum, rnd) => sum + (rnd.expense_amount || 0), 0)
RECURSIVE SumExpense(_)
SumExpense(items) ==
    IF items = <<>> THEN 0
    ELSE OrZero(Head(items).expense_amount) + SumExpense(Tail(items))

\* RndItemRate with the general-R&D rates given to every item
RndItemRateGeneralOnly(rnd, companyType) ==
    IF companyType = "SME" THEN 25 ELSE IF companyType = "MID" THEN 15 ELSE 5

\* the rate (percent) the loop of assessRndExpense gives one item
RndItemRate(rnd, companyType) ==
    IF rnd.rnd_type = "general"
    THEN (IF companyType = "SME" THEN 25 ELSE IF companyType = "MID" THEN 15 ELSE 5)
    ELSE IF rnd.rnd_type = "new_growth"
    THEN (IF companyType = "SME" THEN 30 ELSE IF companyType = "MID" THEN 20 ELSE 10)
    ELSE 5

\* for (const rnd of relevantRnd) totalCredit += expense * creditRate
RECURSIVE RndCreditSum(_, _)
RndCreditSum(items, companyType) ==
    IF items = <<>> THEN Zero
    ELSE Add(MulPct(Num(OrZero(Head(items).expense_amount)),
                    RndItemRate(Head(items), companyType)),
             RndCreditSum(Tail(items), companyType))

\* 15. research and development expense
assessRndExpense(rule, company, data) ==
    IF ~data.present \/ Len(data.items) = 0
    THEN Outcome(FALSE, Zero, "no_rnd_expense", EmptyDetails)
    ELSE LET keep(rnd) == rnd.rnd_type # "" /\ rnd.rnd_type \in {"general", "new_growth"}
             relevantRnd == SelectSeq(data.items, keep)
         IN  IF Len(relevantRnd) = 0
             THEN Outcome(FALSE, Zero, "no_matching_rnd", EmptyDetails)
             ELSE LET totalCredit == RndCreditSum(relevantRnd, company.company_type)
                  IN  Outcome(TRUE, totalCredit, "rnd_credit",
                              [total_credit |-> totalCredit])

\* the part assessDesignExpense and assessNewTechnologyExpense share
ExpenseCredit(company, relevantRnd, smeRate, midRate, otherRate, noneReason, okReason) ==
    IF Len(relevantRnd) = 0
    THEN Outcome(FALSE, Zero, noneReason, EmptyDetails)
    ELSE LET totalExpense == SumExpense(relevantRnd)
         IN  IF totalExpense < 1000000
             THEN Outcome(FALSE, Zero, "expense_below_1m", EmptyDetails)
             ELSE LET companyType == company.company_type
                      creditRate == IF companyType = "SME" THEN smeRate
                                    ELSE IF companyType = "MID" THEN midRate
                                    ELSE otherRate
                      totalCredit == MulPct(Num(totalExpense), creditRate)
                  IN  Outcome(TRUE, totalCredit, okReason,
                              [total_expense |-> totalExpense, credit_rate |-> creditRate,
                               total_credit |-> totalCredit])

\* 16. design expense
assessDesignExpense(rule, company, data) ==
    IF ~data.present \/ Len(data.items) = 0
    THEN Outcome(FALSE, Zero, "no_design_expense", EmptyDetails)
    ELSE LET keep(rnd) == rnd.rnd_type = "design"
         IN  ExpenseCredit(company, SelectSeq(data.items, keep), 25, 15, 5,
                           "no_design_item", "design_credit")

\* assessNewTechnologyExpense with the rates of assessDesignExpense
assessNewTechnologyExpenseDesignRates(rule, company, data) ==
    IF ~data.present \/ Len(data.items) = 0
    THEN Outcome(FALSE, Zero, "no_new_tech_expense", EmptyDetails)
    ELSE LET keep(rnd) == rnd.rnd_type = "new_tech"
         IN  ExpenseCredit(company, SelectSeq(data.items, keep), 25, 15, 5,
                           "no_new_tech_item", "new_tech_credit")

\* 17. data / AI / IoT expense
assessNewTechnologyExpense(rule, company, data) ==
    IF ~data.present \/ Len(data.items) = 0
    THEN Outcome(FALSE, Zero, "no_new_tech_expense", EmptyDetails)
    ELSE LET keep(rnd) == rnd.rnd_type = "new_tech"
         IN  ExpenseCredit(company, SelectSeq(data.items, keep), 30, 20, 10,
                           "no_new_tech_item", "new_tech_credit")

----------------------------------------------------------------------------
(* The dispatcher: function assessRule                                     *)
(* A rule is [id, idType, name]; idType is typeof rule.id, and an id of    *)
(* idType "string" is the decimal string of the number in id.  The switch  *)
(* compares with ===, so only an id of type number can match a case.       *)

EvaluatorNames ==
    <<"assessEmploymentIncrease", "assessYouthEmployment", "assessDisabledEmployment",
      "assessCareerBreakWomen", "assessSocialInsurance", "assessSmeSpecialReduction",
      "assessStartupSmeReduction", "assessManufacturingRelocation",
      "assessSocialEnterpriseReduction", "assessYouthStartupReduction",
      "assessProductivityFacilities", "assessEnergyEnvironmentFacilities",
      "assessSafetyFacilities", "assessSmartFactory", "assessRndExpense",
      "assessDesignExpense", "assessNewTechnologyExpense", "assessDonation",
      "assessBusinessVehicle">>

\* SwitchCase comparing with == instead of ===: the string "3" matches case 3
SwitchCaseLoose(rule) ==
    IF rule.id \in 1..Len(EvaluatorNames) THEN rule.id ELSE 0

\* the case label the switch takes for rule.id: 1..19, or 0 for default
SwitchCase(rule) ==
    IF rule.idType = "number" /\ rule.id \in 1..Len(EvaluatorNames) THEN rule.id ELSE 0

\* the evaluator the switch calls, "none" in the default branch
Dispatch(rule) ==
    IF SwitchCase(rule) = 0 THEN "none" ELSE EvaluatorNames[SwitchCase(rule)]

\* the default branch: reasons '미구현 규칙', details {}
Unimplemented == Outcome(FALSE, Zero, "unimplemented_rule", EmptyDetails)

assessRule(rule, context) ==
    LET company == context.company
        employmentData == context.employmentData
        investmentData == context.investmentData
        rndData == context.rndData
        otherData == context.otherData
        c == SwitchCase(rule)
    IN  CASE c = 1 -> assessEmploymentIncrease(rule, company, employmentData)
          [] c = 2 -> assessYouthEmployment(rule, company, employmentData)
          [] c = 3 -> assessDisabledEmployment(rule, company, employmentData)
          [] c = 4 -> assessCareerBreakWomen(rule, company, employmentData)
          [] c = 5 -> assessSocialInsurance(rule, company, employmentData)
          [] c = 6 -> assessSmeSpecialReduction(rule, company, otherData)
          [] c = 7 -> assessStartupSmeReduction(rule, company, otherData)
          [] c = 8 -> assessManufacturingRelocation(rule, company, otherData)
          [] c = 9 -> assessSocialEnterpriseReduction(rule, company, otherData)
          [] c = 10 -> assessYouthStartupReduction(rule, company, otherData)
          [] c = 11 -> assessProductivityFacilities(rule, company, investmentData)
          [] c = 12 -> assessEnergyEnvironmentFacilities(rule, company, investmentData)
          [] c = 13 -> assessSafetyFacilities(rule, company, investmentData)
          [] c = 14 -> assessSmartFactory(rule, company, investmentData)
          [] c = 15 -> assessRndExpense(rule, company, rndData)
          [] c = 16 -> assessDesignExpense(rule, company, rndData)
          [] c = 17 -> assessNewTechnologyExpense(rule, company, rndData)
          [] c = 18 -> assessDonation(rule, company, otherData)
          [] c = 19 -> assessBusinessVehicle(rule, company, otherData)
          [] OTHER -> Unimplemented

\* ContextAfterAssess for evaluators that trimmed their list in place
\* (splice for filter): the list rules leave only the items they counted
ContextAfterAssessTrimming(rule, context) ==
    LET kept(inv) == inv.facility_type \in {"automation", "info_system", "measurement"}
    IN  IF SwitchCase(rule) = 11 /\ context.investmentData.present
        THEN [context EXCEPT !.investmentData.items = SelectSeq(@, kept)]
        ELSE context

\* the context object after assessRule(rule, context) has returned: the
\* dispatcher and the evaluators only read company and data (filter, reduce
\* and includes build new values; no field is assigned)
ContextAfterAssess(rule, context) == context

----------------------------------------------------------------------------
(* The rule catalog: tax_rules.json, imported at index.tsx:5.  The file is *)
(* not part of the sources at hand; its shape is taken from the            *)
(* specification: nineteen entries with the numeric ids 1..19, in that     *)
(* order (the order Object.entries gives).                                 *)

CatalogSize == 19

\* display names, one per catalog entry
RuleNames ==
    <<"employment_increase", "youth_employment", "disabled_employment",
      "career_break_women", "social_insurance", "sme_special_reduction",
      "startup_sme_reduction", "manufacturing_relocation", "social_enterprise",
      "youth_startup", "productivity_facilities", "energy_environment_facilities",
      "safety_facilities", "smart_factory", "rnd_expense", "design_expense",
      "new_technology_expense", "donation", "business_vehicle">>

CatalogRule(k) == [id |-> k, idType |-> "number", name |-> RuleNames[k]]

taxRules == [k \in 1..CatalogSize |-> CatalogRule(k)]

----------------------------------------------------------------------------
(* Inputs.  Every set below is a bounded sample of what a request body and *)
(* the companies table can hold.  The bundles are grouped in families; a   *)
(* family varies the fields one group of evaluators reads and leaves the   *)
(* other fields of the bundle at 0 / false / "".                           *)

MaxHead == 3        \* largest head count
MaxVehicles == 2    \* largest vehicle count
MaxItems == 2       \* longest investment / R&D list
MaxTicks == 1       \* how many times the calendar year can advance

FirstYear == 2000 + 25

Years == FirstYear..(FirstYear + MaxTicks)

\* companies.company_type is CHECKed to be one of the three (schema);
\* "manufacturing" = '제조업', "service" = '서비스업'
Companies ==
    [company_type : {"SME", "MID", "LARGE"},
     industry : {"manufacturing", "service"},
     is_capital_area : {0, 1}]

HeadCounts == (-1)..MaxHead

AbsentEmployment ==
    [present |-> FALSE, employee_increase |-> 0, youth_employees |-> 0,
     disabled_employees |-> 0, career_break_women |-> 0, insurance_paid |-> 0]

EmploymentBundles ==
    {AbsentEmployment}
    \cup [present : {TRUE}, employee_increase : HeadCounts, youth_employees : {0, 1},
          disabled_employees : {0}, career_break_women : {0},
          insurance_paid : {-4, 0, 1, 10000000}]
    \cup [present : {TRUE}, employee_increase : {0}, youth_employees : {-1, 2},
          disabled_employees : HeadCounts, career_break_women : {0, 2, 3},
          insurance_paid : {0}]

AbsentOther ==
    [present |-> FALSE, business_income |-> 0, has_calculated_tax |-> FALSE,
     calculated_tax |-> 0, startup_date |-> 0, is_youth_startup |-> FALSE,
     relocation_completed |-> FALSE, certification |-> FALSE,
     certification_type |-> "", founder_age |-> 0, donation_amount |-> 0,
     donation_type |-> "", vehicle_count |-> 0, depreciation_expense |-> 0,
     rental_expense |-> 0, fuel_expense |-> 0]

EmptyOther == [AbsentOther EXCEPT !.present = TRUE]

\* rule 6: business income and tax liability
IncomeBundles ==
    {[EmptyOther EXCEPT !.business_income = i] : i \in {-1000, 0, 1, 50000000}}
    \cup {[EmptyOther EXCEPT !.business_income = i, !.has_calculated_tax = TRUE,
                             !.calculated_tax = t] :
             i \in {-1000, 0, 1, 50000000}, t \in {0, 7, 3000000}}

\* rules 7 and 10: startup year, founder, tax liability
StartupBundles ==
    {[EmptyOther EXCEPT !.startup_date = y, !.is_youth_startup = b,
                        !.founder_age = a, !.has_calculated_tax = (t # 0),
                        !.calculated_tax = t] :
        y \in {0, FirstYear - 6, FirstYear - 5, FirstYear},
        b \in BOOLEAN, a \in {0, 34, 35}, t \in {0, 1000001, 300000000}}

\* rules 8 and 9: relocation and certification
CertificationBundles ==
    {[EmptyOther EXCEPT !.relocation_completed = m, !.certification = c,
                        !.certification_type = ty, !.has_calculated_tax = (t # 0),
                        !.calculated_tax = t] :
        m \in BOOLEAN, c \in BOOLEAN, ty \in {"", "social", "coop"},
        t \in {0, 1000001}}

\* rule 18: donations
DonationBundles ==
    {[EmptyOther EXCEPT !.donation_amount = d, !.donation_type = ty,
                        !.business_income = i] :
        d \in {-1000, 0, 1, 5000000}, ty \in {"", "statutory", "designated"},
        i \in {0, 1, 10000000}}

\* rule 19: vehicles
VehicleBundles ==
    {[EmptyOther EXCEPT !.vehicle_count = v, !.depreciation_expense = d,
                        !.rental_expense = r, !.fuel_expense = f] :
        v \in (-1)..MaxVehicles, d \in {0, 20000000}, r \in {10000000, 30000000},
        f \in {0, 3000000}}

OtherBundles ==
    {AbsentOther} \cup IncomeBundles \cup StartupBundles \cup CertificationBundles
    \cup DonationBundles \cup VehicleBundles

\* all sequences over S of length at most n
RECURSIVE SeqsUpTo(_, _)
SeqsUpTo(S, n) ==
    IF n = 0 THEN {<<>>}
    ELSE LET shorter == SeqsUpTo(S, n - 1)
         IN  shorter \cup {Append(q, x) : q \in shorter, x \in S}

AbsentList == [present |-> FALSE, items |-> <<>>]

InvestmentItems ==
    {[facility_type |-> "automation", investment_amount |-> 6000000],
     [facility_type |-> "energy_saving", investment_amount |-> 6000000],
     [facility_type |-> "fire_prevention", investment_amount |-> 10000000],
     [facility_type |-> "smart_factory", investment_amount |-> 50000000],
     [facility_type |-> "smart_factory_mes", investment_amount |-> 50000000],
     [facility_type |-> "info_system", investment_amount |-> 4000000],
     [facility_type |-> "measurement", investment_amount |-> 4000000],
     [facility_type |-> "greenhouse_gas", investment_amount |-> 4000000],
     [facility_type |-> "environmental", investment_amount |-> 4000000],
     [facility_type |-> "protective_gear", investment_amount |-> 5000000],
     [facility_type |-> "workplace_improvement", investment_amount |-> 5000000],
     [facility_type |-> "warehouse", investment_amount |-> 200000000]}

InvestmentLists ==
    {AbsentList} \cup {[present |-> TRUE, items |-> q] : q \in SeqsUpTo(InvestmentItems, MaxItems)}

RndItems ==
    {[rnd_type |-> "general", expense_amount |-> 10000000],
     [rnd_type |-> "general", expense_amount |-> 600000],
     [rnd_type |-> "new_growth", expense_amount |-> 5000000],
     [rnd_type |-> "design", expense_amount |-> 600000],
     [rnd_type |-> "new_tech", expense_amount |-> 600000],
     [rnd_type |-> "personnel", expense_amount |-> 90000000]}

RndLists ==
    {AbsentList} \cup {[present |-> TRUE, items |-> q] : q \in SeqsUpTo(RndItems, MaxItems)}

Context(co, e, i, r, o) ==
    [company |-> co, employmentData |-> e, investmentData |-> i, rndData |-> r,
     otherData |-> o]

\* employmentData: {} and investmentData / rndData: []
EmptyEmployment == [AbsentEmployment EXCEPT !.present = TRUE]

EmptyList == [present |-> TRUE, items |-> <<>>]

\* the contexts the dispatcher is applied to: one bundle varies over its
\* whole sample while the other three are absent; and every combination of
\* absent and empty bundles
Contexts ==
    {Context(co, e, AbsentList, AbsentList, AbsentOther) :
        co \in Companies, e \in EmploymentBundles}
    \cup {Context(co, AbsentEmployment, i, AbsentList, AbsentOther) :
        co \in Companies, i \in InvestmentLists}
    \cup {Context(co, AbsentEmployment, AbsentList, r, AbsentOther) :
        co \in Companies, r \in RndLists}
    \cup {Context(co, AbsentEmployment, AbsentList, AbsentList, o) :
        co \in Companies, o \in OtherBundles}
    \cup {Context(co, e, i, r, o) :
        co \in Companies, e \in {AbsentEmployment, EmptyEmployment},
        i \in {AbsentList, EmptyList}, r \in {AbsentList, EmptyList},
        o \in {AbsentOther, EmptyOther}}

\* the rules the dispatcher is applied to: the catalog's, ids just outside
\* 1..19, and ids that are strings
Rules ==
    {taxRules[k] : k \in 1..CatalogSize}
    \cup {[id |-> n, idType |-> "number", name |-> "unknown"] : n \in {-1, 0, CatalogSize + 1}}
    \cup {[id |-> n, idType |-> "string", name |-> "unknown"] : n \in {1, CatalogSize}}

\* the contexts of the assessment runs: several bundles present at once
RunEmployment ==
    {AbsentEmployment,
     [present |-> TRUE, employee_increase |-> 3, youth_employees |-> 1,
      disabled_employees |-> 0, career_break_women |-> 2, insurance_paid |-> 10000000],
     [present |-> TRUE, employee_increase |-> -1, youth_employees |-> 0,
      disabled_employees |-> 1, career_break_women |-> 0, insurance_paid |-> 1]}

RunOther ==
    {AbsentOther,
     [EmptyOther EXCEPT !.business_income = 10000000, !.has_calculated_tax = TRUE,
                        !.calculated_tax = 1000001,
                        !.startup_date = FirstYear - 5, !.is_youth_startup = TRUE,
                        !.founder_age = 34, !.relocation_completed = TRUE,
                        !.certification = TRUE, !.certification_type = "social",
                        !.donation_amount = 5000000, !.donation_type = "statutory",
                        !.vehicle_count = 2, !.depreciation_expense = 20000000,
                        !.rental_expense = 10000000, !.fuel_expense = 3000000],
     [EmptyOther EXCEPT !.business_income = -1000, !.startup_date = FirstYear - 6,
                        !.founder_age = 35, !.donation_amount = -1000]}

RunInvestment ==
    {AbsentList,
     [present |-> TRUE,
      items |-> <<[facility_type |-> "automation", investment_amount |-> 6000000],
                  [facility_type |-> "automation", investment_amount |-> 6000000],
                  [facility_type |-> "fire_prevention", investment_amount |-> 10000000]>>]}

RunRnd ==
    {AbsentList,
     [present |-> TRUE,
      items |-> <<[rnd_type |-> "general", expense_amount |-> 10000000],
                  [rnd_type |-> "new_growth", expense_amount |-> 5000000]>>]}

RunContexts ==
    {Context(co, e, i, r, o) :
        co \in Companies, e \in RunEmployment, i \in RunInvestment, r \in RunRnd,
        o \in RunOther}

----------------------------------------------------------------------------
(* POST /api/assess: the aggregation loop (index.tsx:114-151)              *)

\* no dispatcher call has returned yet
NoOutcome == Outcome(FALSE, Zero, "", EmptyDetails)

NoRule == [id |-> 0, idType |-> "none", name |-> ""]

\* no run to compare with yet
NoPeer == [ran |-> FALSE, order |-> <<>>, results |-> <<>>,
           totalCreditAmount |-> Zero, eligibleCount |-> 0]

\* Object.entries(taxRules): the catalog positions in catalog order
CatalogOrder == [k \in 1..CatalogSize |-> k]

\* the row results.push(...) appends; details_json = JSON.stringify(details)
ResultRow(rule, assessment) ==
    [credit_rule_id |-> rule.id,
     credit_rule_name |-> rule.name,
     is_eligible |-> IF assessment.eligible THEN 1 ELSE 0,
     credit_amount |-> assessment.creditAmount,
     reasons |-> assessment.reasons,
     details_json |-> <<"json", assessment.details>>]

\* Accumulate with the if dropped: every outcome is added and counted
AccumulateAlways(acc, assessment) ==
    [total |-> Add(acc.total, assessment.creditAmount), count |-> acc.count + 1]

\* if (assessment.eligible) { totalCreditAmount += creditAmount; eligibleCount++ }
Accumulate(acc, assessment) ==
    IF assessment.eligible
    THEN [total |-> Add(acc.total, assessment.creditAmount), count |-> acc.count + 1]
    ELSE acc

\* LoopContinues with a break on the first ineligible outcome
LoopStopsOnIneligible(n, assessment) == n < CatalogSize /\ assessment.eligible

\* whether the for loop goes on after the iteration that left n rows
LoopContinues(n, assessment) == n < CatalogSize

\* the state a handler starts its loop in, for a request with context c
StartRun(c, o) ==
    /\ ctx = c
    /\ order = o
    /\ pc = "loop"
    /\ results = <<>>
    /\ totalCreditAmount = Zero
    /\ eligibleCount = 0
    /\ calledRule = NoRule
    /\ outcome = NoOutcome
    /\ invoked = "none"

\* one iteration of for (const [key, rule] of Object.entries(taxRules))
AssessStep ==
    /\ pc = "loop"
    /\ Len(results) < Len(order)
    /\ LET rule == taxRules[order[Len(results) + 1]]
           assessment == assessRule(rule, ctx)
           acc == Accumulate([total |-> totalCreditAmount, count |-> eligibleCount],
                             assessment)
       IN  /\ calledRule' = rule
           /\ outcome' = assessment
           /\ invoked' = Dispatch(rule)
           /\ results' = Append(results, ResultRow(rule, assessment))
           /\ totalCreditAmount' = acc.total
           /\ eligibleCount' = acc.count
           /\ pc' = IF LoopContinues(Len(results) + 1, assessment) THEN "loop" ELSE "done"
           /\ ctx' = ContextAfterAssess(rule, ctx)
    /\ UNCHANGED <<clockYear, order, peer, serverVars, wizardVars>>

\* the calendar year advances (new Date().getFullYear() is read per call)
Tick ==
    /\ clockYear < FirstYear + MaxTicks
    /\ clockYear' = clockYear + 1
    /\ UNCHANGED <<pc, ctx, order, results, totalCreditAmount, eligibleCount, peer,
                   calledRule, outcome, invoked, serverVars, wizardVars>>

\* a second request with the same body: the handler starts again; what the
\* first run returned is kept in peer
Rerun(o) ==
    /\ pc = "done"
    /\ ~peer.ran
    /\ peer' = [ran |-> TRUE, order |-> order, results |-> results,
                totalCreditAmount |-> totalCreditAmount, eligibleCount |-> eligibleCount]
    /\ order' = o
    /\ pc' = "loop"
    /\ results' = <<>>
    /\ totalCreditAmount' = Zero
    /\ eligibleCount' = 0
    /\ calledRule' = NoRule
    /\ outcome' = NoOutcome
    /\ invoked' = "none"
    /\ UNCHANGED <<clockYear, ctx, serverVars, wizardVars>>

RerunSame == Rerun(CatalogOrder)

Init ==
    /\ clockYear = FirstYear
    /\ peer = NoPeer
    /\ \E c \in RunContexts : StartRun(c, CatalogOrder)
    /\ ServerIdle
    /\ WizardIdle

Next == AssessStep \/ Tick \/ RerunSame

Spec == Init /\ [][Next]_vars

----------------------------------------------------------------------------
(* The dispatcher applied to any rule and any context                      *)

InitDispatch ==
    /\ clockYear \in Years
    /\ peer = NoPeer
    /\ pc = "call"
    /\ ctx \in Contexts
    /\ calledRule \in Rules
    /\ order = <<>>
    /\ results = <<>>
    /\ totalCreditAmount = Zero
    /\ eligibleCount = 0
    /\ outcome = NoOutcome
    /\ invoked = "none"
    /\ ServerIdle
    /\ WizardIdle

\* assessRule(calledRule, ctx) is called and returns
Evaluate ==
    /\ pc = "call"
    /\ outcome' = assessRule(calledRule, ctx)
    /\ invoked' = Dispatch(calledRule)
    /\ pc' = "returned"
    /\ ctx' = ContextAfterAssess(calledRule, ctx)
    /\ UNCHANGED <<clockYear, order, results, totalCreditAmount, eligibleCount,
                   peer, calledRule, serverVars, wizardVars>>

NextDispatch == Evaluate

SpecDispatch == InitDispatch /\ [][NextDispatch]_vars

----------------------------------------------------------------------------
(* The same run evaluated twice side by side: in catalog order (results)   *)
(* and in another order (peer), slot by slot, each slot of the two at the  *)
(* same instant.                                                           *)

ReverseOrder == [k \in 1..CatalogSize |-> CatalogSize + 1 - k]

\* the even positions first, then the odd ones
EvenOddOrder ==
    [k \in 1..CatalogSize |->
        IF 2 * k <= CatalogSize THEN 2 * k ELSE 2 * (k - (CatalogSize \div 2)) - 1]

Orders == {ReverseOrder, EvenOddOrder}

InitAnyOrder ==
    /\ clockYear = FirstYear
    /\ \E o \in Orders : peer = [NoPeer EXCEPT !.ran = TRUE, !.order = o]
    /\ \E c \in RunContexts : StartRun(c, CatalogOrder)
    /\ ServerIdle
    /\ WizardIdle

\* slot n+1: the catalog-order run and the reordered run each evaluate their
\* next rule
AssessPair ==
    /\ pc = "loop"
    /\ Len(results) < Len(order)
    /\ LET rule == taxRules[order[Len(results) + 1]]
           assessment == assessRule(rule, ctx)
           acc == Accumulate([total |-> totalCreditAmount, count |-> eligibleCount],
                             assessment)
           peerRule == taxRules[peer.order[Len(peer.results) + 1]]
           peerAssessment == assessRule(peerRule, ctx)
           peerAcc == Accumulate([total |-> peer.totalCreditAmount,
                                  count |-> peer.eligibleCount], peerAssessment)
       IN  /\ calledRule' = rule
           /\ outcome' = assessment
           /\ invoked' = Dispatch(rule)
           /\ results' = Append(results, ResultRow(rule, assessment))
           /\ totalCreditAmount' = acc.total
           /\ eligibleCount' = acc.count
           /\ pc' = IF LoopContinues(Len(results) + 1, assessment) THEN "loop" ELSE "done"
           /\ peer' = [peer EXCEPT
                         !.results = Append(@, ResultRow(peerRule, peerAssessment)),
                         !.totalCreditAmount = peerAcc.total,
                         !.eligibleCount = peerAcc.count]
           /\ ctx' = ContextAfterAssess(peerRule, ContextAfterAssess(rule, ctx))
    /\ UNCHANGED <<clockYear, order, serverVars, wizardVars>>

NextAnyOrder == AssessPair \/ Tick

SpecAnyOrder == InitAnyOrder /\ [][NextAnyOrder]_vars

\* the same, with the calendar year standing still
SpecAnyOrderSameYear == InitAnyOrder /\ [][AssessPair]_vars

----------------------------------------------------------------------------
(* POST /api/companies (index.tsx:42-77) over the table companies          *)
(* (CREATE TABLE companies, business_number TEXT UNIQUE).  A handler       *)
(* invocation is suspended at each await of a D1 statement; the statements *)
(* of different invocations interleave, each statement is atomic.          *)
(* "BN1", "BN2" stand for two business registration numbers.               *)

MaxRegistrations == 3   \* how many registration requests arrive

BusinessNumbers == {"BN1", "BN2"}

\* the engine is not running
EngineIdle ==
    /\ clockYear = FirstYear
    /\ pc = "idle"
    /\ ctx = <<>>
    /\ order = <<>>
    /\ results = <<>>
    /\ totalCreditAmount = Zero
    /\ eligibleCount = 0
    /\ peer = NoPeer
    /\ calledRule = NoRule
    /\ outcome = NoOutcome
    /\ invoked = "none"

\* a request body of POST /api/companies; company_name, ceo_name and
\* location are present and play no part
RegistrationBodies ==
    [business_number : BusinessNumbers, company_type : {"SME"},
     industry : {"manufacturing"}, is_capital_area : {0, 1}]

\* c.json(..., status): success, the HTTP status and data.id (0 when the
\* response carries no data)
Response(success, status, id) == [success |-> success, status |-> status, id |-> id]

NoResponse == Response(FALSE, 0, 0)

\* SELECT id FROM companies WHERE business_number = ? ... .first(): the id
\* of the row, 0 for null
SelectCompanyByNumber(table, bn) ==
    IF \E k \in 1..Len(table) : table[k].business_number = bn
    THEN (CHOOSE k \in 1..Len(table) : table[k].business_number = bn)
    ELSE 0

\* the row INSERT INTO companies adds: AUTOINCREMENT id, is_capital_area ? 1 : 0
CompanyRow(table, body) ==
    [id |-> Len(table) + 1,
     business_number |-> body.business_number,
     company_type |-> body.company_type,
     industry |-> body.industry,
     is_capital_area |-> IF body.is_capital_area # 0 THEN 1 ELSE 0]

\* the handler has read the body and its SELECT has run
RegisterSelect(r) ==
    /\ registrations[r].pc = "received"
    /\ registrations' = [registrations EXCEPT
           ![r].pc = "selected",
           ![r].existing = SelectCompanyByNumber(companies, registrations[r].body.business_number)]
    /\ UNCHANGED <<companies, assessment_results, assessment_sessions, assessments,
                   queries, engineVars, wizardVars>>

\* if (existing) return success with data: existing
RegisterReturnExisting(r) ==
    /\ registrations[r].pc = "selected"
    /\ registrations[r].existing # 0
    /\ registrations' = [registrations EXCEPT
           ![r].pc = "responded",
           ![r].response = Response(TRUE, 200, registrations[r].existing)]
    /\ UNCHANGED <<companies, assessment_results, assessment_sessions, assessments,
                   queries, engineVars, wizardVars>>

\* the INSERT runs: it fails on the UNIQUE constraint when a row with the
\* number is there by now (catch: 500), else it adds the row and the handler
\* returns success with data: { id: last_row_id }
RegisterInsert(r) ==
    /\ registrations[r].pc = "selected"
    /\ registrations[r].existing = 0
    /\ LET body == registrations[r].body
       IN  IF SelectCompanyByNumber(companies, body.business_number) # 0
           THEN /\ registrations' = [registrations EXCEPT
                       ![r].pc = "responded",
                       ![r].response = Response(FALSE, 500, 0)]
                /\ UNCHANGED companies
           ELSE /\ companies' = Append(companies, CompanyRow(companies, body))
                /\ registrations' = [registrations EXCEPT
                       ![r].pc = "responded",
                       ![r].response = Response(TRUE, 200, Len(companies) + 1)]
    /\ UNCHANGED <<assessment_results, assessment_sessions, assessments, queries,
                   engineVars, wizardVars>>

InitRegister ==
    /\ EngineIdle
    /\ WizardIdle
    /\ companies = <<>>
    /\ assessment_results = {}
    /\ assessment_sessions = <<>>
    /\ assessments = <<>>
    /\ queries = <<>>
    /\ registrations \in
           [1..MaxRegistrations ->
               [body : RegistrationBodies, pc : {"received"}, existing : {0},
                response : {NoResponse}]]

RegisterSelectAny == \E r \in DOMAIN registrations : RegisterSelect(r)

RegisterReturnExistingAny == \E r \in DOMAIN registrations : RegisterReturnExisting(r)

RegisterInsertAny == \E r \in DOMAIN registrations : RegisterInsert(r)

NextRegister == RegisterSelectAny \/ RegisterReturnExistingAny \/ RegisterInsertAny

SpecRegister == InitRegister /\ [][NextRegister]_vars

----------------------------------------------------------------------------
(* POST /api/assess (index.tsx:100-190) and GET /api/results               *)
(* (index.tsx:193-222) over the tables assessment_results and              *)
(* assessment_sessions.  A stored result row keeps company_id, year,       *)
(* credit_rule_id, is_eligible and credit_amount; its id, name, reasons,   *)
(* details_json and created_at are left out.  The field run of a stored    *)
(* row is not a column: it records which handler invocation inserted the   *)
(* row (the tables themselves hold nothing that tells the runs apart).     *)

MaxRuns == 2        \* how many assessment requests arrive

\* the company the database holds when the requests arrive
RegisteredCompany ==
    [id |-> 1, business_number |-> "BN1", company_type |-> "SME",
     industry |-> "manufacturing", is_capital_area |-> 0]

\* .first() found no row: null
NoCompany ==
    [id |-> 0, business_number |-> "", company_type |-> "", industry |-> "",
     is_capital_area |-> 0]

\* SELECT * FROM companies WHERE id = ? ... .first()
SelectCompanyById(table, id) ==
    IF \E k \in 1..Len(table) : table[k].id = id
    THEN table[CHOOSE k \in 1..Len(table) : table[k].id = id]
    ELSE NoCompany

\* CompanyMissing with the check dropped
CompanyMissingIgnored(company) == FALSE

\* if (!company)
CompanyMissing(company) == company = NoCompany

\* request bodies of POST /api/assess: company 1 is registered, company 2
\* is not; the four bundles are those of a run with several eligible rules
AssessBodies ==
    [company_id : {1, 2}, year : {FirstYear - 1},
     employmentData : {[present |-> TRUE, employee_increase |-> 3, youth_employees |-> 1,
                        disabled_employees |-> 0, career_break_women |-> 2,
                        insurance_paid |-> 10000000]},
     investmentData : {AbsentList},
     rndData : {[present |-> TRUE,
                 items |-> <<[rnd_type |-> "general", expense_amount |-> 10000000],
                             [rnd_type |-> "new_growth", expense_amount |-> 5000000]>>]},
     otherData : {AbsentOther}]

\* the success response of POST /api/assess, and its error responses
AssessResponse(success, status, session_id, total, count) ==
    [success |-> success, status |-> status, session_id |-> session_id,
     total_credit_amount |-> total, eligible_count |-> count]

NoAssessResponse == AssessResponse(FALSE, 0, 0, Zero, 0)

\* the locals results, totalCreditAmount and eligibleCount after the first
\* n iterations of the loop over the catalog; the loop has no await
RECURSIVE AssessAll(_, _)
AssessAll(n, context) ==
    IF n = 0 THEN [results |-> <<>>, total |-> Zero, count |-> 0]
    ELSE LET before == AssessAll(n - 1, context)
             rule == taxRules[n]
             assessment == assessRule(rule, context)
             acc == Accumulate([total |-> before.total, count |-> before.count],
                               assessment)
         IN  [results |-> Append(before.results, ResultRow(rule, assessment)),
              total |-> acc.total, count |-> acc.count]

\* the row one INSERT INTO assessment_results stores for invocation a
StoredResult(a, body, result) ==
    [run |-> a, company_id |-> body.company_id, year |-> body.year,
     credit_rule_id |-> result.credit_rule_id, is_eligible |-> result.is_eligible,
     credit_amount |-> result.credit_amount]

\* the row INSERT INTO assessment_sessions stores for invocation a
StoredSession(table, a, body, total, count) ==
    [id |-> Len(table) + 1, run |-> a, company_id |-> body.company_id,
     year |-> body.year, total_credit_amount |-> total, eligible_count |-> count]

\* the company lookup; 404 when there is no such company, else the loop
\* over the catalog runs to its end
AssessLookup(a) ==
    /\ assessments[a].pc = "received"
    /\ LET body == assessments[a].body
           company == SelectCompanyById(companies, body.company_id)
           run == AssessAll(CatalogSize,
                            Context(company, body.employmentData, body.investmentData,
                                    body.rndData, body.otherData))
       IN  IF CompanyMissing(company)
           THEN assessments' = [assessments EXCEPT
                    ![a].pc = "responded",
                    ![a].response = AssessResponse(FALSE, 404, 0, Zero, 0)]
           ELSE assessments' = [assessments EXCEPT
                    ![a].pc = "storing",
                    ![a].results = run.results,
                    ![a].totalCreditAmount = run.total,
                    ![a].eligibleCount = run.count]
    /\ UNCHANGED <<companies, assessment_results, assessment_sessions, registrations,
                   queries, engineVars, wizardVars>>

\* for (const result of results) await INSERT INTO assessment_results: one
\* statement
AssessInsertResult(a) ==
    /\ assessments[a].pc = "storing"
    /\ assessments[a].inserted < Len(assessments[a].results)
    /\ assessment_results' = assessment_results \cup
           {StoredResult(a, assessments[a].body,
                         assessments[a].results[assessments[a].inserted + 1])}
    /\ assessments' = [assessments EXCEPT ![a].inserted = @ + 1]
    /\ UNCHANGED <<companies, assessment_sessions, registrations, queries,
                   engineVars, wizardVars>>

\* INSERT INTO assessment_sessions and the success response
AssessInsertSession(a) ==
    /\ assessments[a].pc = "storing"
    /\ assessments[a].inserted = Len(assessments[a].results)
    /\ assessment_sessions' =
           Append(assessment_sessions,
                  StoredSession(assessment_sessions, a, assessments[a].body,
                                assessments[a].totalCreditAmount,
                                assessments[a].eligibleCount))
    /\ assessments' = [assessments EXCEPT
           ![a].pc = "responded",
           ![a].response = AssessResponse(TRUE, 200, Len(assessment_sessions) + 1,
                                          assessments[a].totalCreditAmount,
                                          assessments[a].eligibleCount)]
    /\ UNCHANGED <<companies, assessment_results, registrations, queries,
                   engineVars, wizardVars>>

\* the statement the handler awaits is rejected by the database: the catch
\* block answers 500; what earlier statements stored stays stored
AssessStatementFails(a) ==
    /\ assessments[a].pc = "storing"
    /\ assessments' = [assessments EXCEPT
           ![a].pc = "responded",
           ![a].response = AssessResponse(FALSE, 500, 0, Zero, 0)]
    /\ UNCHANGED <<companies, assessment_results, assessment_sessions, registrations,
                   queries, engineVars, wizardVars>>

InitAssess ==
    /\ EngineIdle
    /\ WizardIdle
    /\ companies = <<RegisteredCompany>>
    /\ assessment_results = {}
    /\ assessment_sessions = <<>>
    /\ registrations = <<>>
    /\ queries = <<>>
    /\ assessments \in
           [1..MaxRuns ->
               [body : AssessBodies, pc : {"received"}, results : {<<>>},
                inserted : {0}, totalCreditAmount : {Zero}, eligibleCount : {0},
                response : {NoAssessResponse}]]

AssessLookupAny == \E a \in DOMAIN assessments : AssessLookup(a)

AssessInsertResultAny == \E a \in DOMAIN assessments : AssessInsertResult(a)

AssessInsertSessionAny == \E a \in DOMAIN assessments : AssessInsertSession(a)

AssessStatementFailsAny == \E a \in DOMAIN assessments : AssessStatementFails(a)

NextAssess ==
    AssessLookupAny \/ AssessInsertResultAny \/ AssessInsertSessionAny
    \/ AssessStatementFailsAny

SpecAssess == InitAssess /\ [][NextAssess]_vars

\* GET /api/results/:companyId/:year

MaxQueries == 1     \* how many result queries arrive

\* .first() found no session: null
NoSession ==
    [id |-> 0, run |-> 0, company_id |-> 0, year |-> 0, total_credit_amount |-> Zero,
     eligible_count |-> 0]

\* SELECT * FROM assessment_results WHERE company_id = ? AND year = ?
\* ORDER BY credit_rule_id: every stored row of the company and year
SelectResults(table, company_id, year) ==
    {row \in table : row.company_id = company_id /\ row.year = year}

\* SELECT * FROM assessment_sessions WHERE company_id = ? AND year = ?
\* ORDER BY created_at DESC LIMIT 1: the session stored last (sessions
\* stored within the same second are not told apart here)
SelectLatestSession(table, company_id, year) ==
    LET matching == {k \in 1..Len(table) :
                        table[k].company_id = company_id /\ table[k].year = year}
    IN  IF matching = {} THEN NoSession
        ELSE table[CHOOSE k \in matching : \A j \in matching : j <= k]

\* the first SELECT of the query runs.  quiet is not program state: it
\* records that at this moment every assessment request had been answered,
\* at least one of them with success for this company and year
QuerySelectResults(q) ==
    /\ queries[q].pc = "received"
    /\ queries' = [queries EXCEPT
           ![q].pc = "selected",
           ![q].results = SelectResults(assessment_results, queries[q].company_id,
                                        queries[q].year),
           ![q].quiet =
               /\ \A a \in DOMAIN assessments : assessments[a].pc = "responded"
               /\ \E a \in DOMAIN assessments :
                      /\ assessments[a].response.success
                      /\ assessments[a].body.company_id = queries[q].company_id
                      /\ assessments[a].body.year = queries[q].year
               /\ \A a \in DOMAIN assessments :
                      assessments[a].response.status \in {200, 404}]
    /\ UNCHANGED <<companies, assessment_results, assessment_sessions, registrations,
                   assessments, engineVars, wizardVars>>

\* the second SELECT runs and the handler answers
QuerySelectSession(q) ==
    /\ queries[q].pc = "selected"
    /\ queries' = [queries EXCEPT
           ![q].pc = "responded",
           ![q].session = SelectLatestSession(assessment_sessions, queries[q].company_id,
                                              queries[q].year)]
    /\ UNCHANGED <<companies, assessment_results, assessment_sessions, registrations,
                   assessments, engineVars, wizardVars>>

InitResults ==
    /\ EngineIdle
    /\ WizardIdle
    /\ companies = <<RegisteredCompany>>
    /\ assessment_results = {}
    /\ assessment_sessions = <<>>
    /\ registrations = <<>>
    /\ assessments \in
           [1..MaxRuns ->
               [body : AssessBodies, pc : {"received"}, results : {<<>>},
                inserted : {0}, totalCreditAmount : {Zero}, eligibleCount : {0},
                response : {NoAssessResponse}]]
    /\ queries \in
           [1..MaxQueries ->
               [company_id : {1}, year : {FirstYear - 1}, pc : {"received"},
                quiet : {FALSE}, results : {{}}, session : {NoSession}]]

QuerySelectResultsAny == \E q \in DOMAIN queries : QuerySelectResults(q)

QuerySelectSessionAny == \E q \in DOMAIN queries : QuerySelectSession(q)

\* assessment runs and result queries interleaved, statement by statement, on
\* a database that rejects no statement
NextResults ==
    AssessLookupAny \/ AssessInsertResultAny \/ AssessInsertSessionAny
    \/ QuerySelectResultsAny \/ QuerySelectSessionAny

SpecResults == InitResults /\ [][NextResults]_vars

----------------------------------------------------------------------------
(* The form wizard: currentStep, companyId, nextStep, prevStep,            *)
(* registerCompany, submitAssessment.  companyId = 0 stands for null.      *)

MaxCalls == 6       \* how many times nextStep and submitAssessment are called

totalSteps == 5

\* the ids POST /api/companies may answer with
CompanyIds == {1, 2}

\* if (currentStep < totalSteps) showStep(currentStep + 1)
showNext(step) == IF step < totalSteps THEN step + 1 ELSE step

nextStepResumeUngated(step, ok) == showNext(step)

\* nextStep after registerCompany() was awaited: return when it answered
\* false, otherwise go on to the next step
nextStepResume(step, ok) == IF ok THEN showNext(step) ELSE step

\* one call: which function, where it stands, what registerCompany answered
Call(op, at, ok) == [op |-> op, pc |-> at, registered |-> ok]

\* nextStep() is called at step 1 and registerCompany() returns false
\* before any await: a required field is empty
NextStepInvalid ==
    /\ Len(calls) < MaxCalls
    /\ currentStep = 1
    /\ calls' = Append(calls, Call("nextStep", "returned", FALSE))
    /\ UNCHANGED <<currentStep, companyId, sent, engineVars, serverVars>>

\* nextStep() is called at step 1 and registerCompany() awaits its fetch
NextStepRegister ==
    /\ Len(calls) < MaxCalls
    /\ currentStep = 1
    /\ calls' = Append(calls, Call("nextStep", "awaiting", FALSE))
    /\ UNCHANGED <<currentStep, companyId, sent, engineVars, serverVars>>

\* the awaited registration answers success: companyId is set and nextStep
\* goes on from the step the page is at by now
RegisterSucceeds(k) ==
    /\ calls[k].pc = "awaiting"
    /\ \E id \in CompanyIds : companyId' = id
    /\ currentStep' = nextStepResume(currentStep, TRUE)
    /\ calls' = [calls EXCEPT ![k] = Call("nextStep", "returned", TRUE)]
    /\ UNCHANGED <<sent, engineVars, serverVars>>

\* the awaited registration answers success: false, or the fetch throws
RegisterFails(k) ==
    /\ calls[k].pc = "awaiting"
    /\ currentStep' = nextStepResume(currentStep, FALSE)
    /\ calls' = [calls EXCEPT ![k] = Call("nextStep", "returned", FALSE)]
    /\ UNCHANGED <<companyId, sent, engineVars, serverVars>>

\* nextStep() is called at a later step: nothing is awaited
NextStepPlain ==
    /\ Len(calls) < MaxCalls
    /\ currentStep # 1
    /\ currentStep' = showNext(currentStep)
    /\ calls' = Append(calls, Call("nextStep", "returned", FALSE))
    /\ UNCHANGED <<companyId, sent, engineVars, serverVars>>

prevStep ==
    /\ currentStep > 1
    /\ currentStep' = currentStep - 1
    /\ UNCHANGED <<companyId, calls, sent, engineVars, serverVars>>

\* submitAssessment(): returns at once while companyId is null, otherwise
\* posts the request with company_id: companyId.  What follows the fetch
\* (alerts, leaving the page) writes none of these variables.
submitAssessment ==
    /\ Len(calls) < MaxCalls
    /\ calls' = Append(calls, Call("submitAssessment", "returned", FALSE))
    /\ sent' = IF companyId = 0 THEN sent ELSE Append(sent, companyId)
    /\ UNCHANGED <<currentStep, companyId, engineVars, serverVars>>

InitWizard == EngineIdle /\ ServerIdle /\ WizardIdle

RegisterSucceedsAny == \E k \in DOMAIN calls : RegisterSucceeds(k)

RegisterFailsAny == \E k \in DOMAIN calls : RegisterFails(k)

NextWizard ==
    NextStepInvalid \/ NextStepRegister \/ RegisterSucceedsAny \/ RegisterFailsAny
    \/ NextStepPlain \/ prevStep \/ submitAssessment

SpecWizard == InitWizard /\ [][NextWizard]_vars

----------------------------------------------------------------------------
(* Properties                                                              *)

\* the dispatcher has returned from a call for a rule with a numeric id 1..19
ReturnedFor(ids) ==
    /\ pc = "returned"
    /\ calledRule.idType = "number"
    /\ calledRule.id \in ids

\* C1: for every rule id 1..19 and every context, an outcome with
\* eligible = false has creditAmount = 0, and the outcome of rule 19 has
\* creditAmount = 0 in the eligible and in the ineligible branch.
C1_IneligibleMeansNoCredit ==
    ReturnedFor(1..19) =>
        /\ (~outcome.eligible => outcome.creditAmount = Zero)
        /\ (calledRule.id = 19 => outcome.creditAmount = Zero)

\* rule 19 returned eligible for a fleet with expenses
C1_Witness ==
    /\ ReturnedFor({19})
    /\ outcome.eligible
    /\ outcome.details.total_eligible > 0
    /\ outcome.creditAmount = Zero

\* the sum of credit_amount over the rows with is_eligible = 1
RECURSIVE SumEligible(_)
SumEligible(rows) ==
    IF rows = <<>> THEN Zero
    ELSE IF Head(rows).is_eligible = 1
    THEN Add(Head(rows).credit_amount, SumEligible(Tail(rows)))
    ELSE SumEligible(Tail(rows))

CountEligible(rows) == Cardinality({k \in 1..Len(rows) : rows[k].is_eligible = 1})

\* C2: when the aggregation loop has finished, totalCredit is the sum of
\* creditAmount over exactly the eligible outcomes and eligibleCount is the
\* number of eligible outcomes.
C2_TotalsAreEligibleSums ==
    pc = "done" =>
        /\ totalCreditAmount = SumEligible(results)
        /\ eligibleCount = CountEligible(results)

\* a finished run with eligible and ineligible outcomes and a positive total
C2_Witness ==
    /\ pc = "done"
    /\ eligibleCount >= 2
    /\ eligibleCount < Len(results)
    /\ Lt(Zero, totalCreditAmount)

\* C3: the aggregator calls the dispatcher once per catalog entry, in
\* catalog order, and never stops early: row k of the outcome list is the
\* outcome of catalog entry k, the last call made is the one for the last
\* row, and a finished run has one row per catalog entry.
C3_OneRowPerRuleInOrder ==
    /\ \A k \in 1..Len(results) : results[k].credit_rule_id = taxRules[k].id
    /\ Len(results) <= CatalogSize
    /\ (results # <<>> => calledRule = taxRules[Len(results)])
    /\ (pc = "done" => Len(results) = CatalogSize)
    /\ (pc = "loop" => Len(results) < CatalogSize)

\* a finished run whose first outcome was ineligible and a later one eligible
C3_Witness ==
    /\ pc = "done"
    /\ Len(results) = CatalogSize
    /\ results[1].is_eligible = 0
    /\ results[CatalogSize].is_eligible = 1

\* C4: two runs with the identical catalog and the identical context return
\* identical outcome lists, totalCredit and eligibleCount, whenever each of
\* them is executed.
C4_SameInputSameOutput ==
    (pc = "done" /\ peer.ran) =>
        /\ peer.results = results
        /\ peer.totalCreditAmount = totalCreditAmount
        /\ peer.eligibleCount = eligibleCount

\* C5: evaluating the rules of one run in another order gives every rule the
\* outcome catalog-order evaluation gives it, and the same totalCredit and
\* eligibleCount.
C5_OrderIndependent ==
    (pc = "done" /\ peer.ran) =>
        /\ \A j, k \in 1..CatalogSize :
              results[j].credit_rule_id = peer.results[k].credit_rule_id
                  => results[j] = peer.results[k]
        /\ peer.totalCreditAmount = totalCreditAmount
        /\ peer.eligibleCount = eligibleCount

\* C6: for a rule whose id is not an integer in 1..19 the dispatcher returns
\* the generic outcome (not eligible, credit 0, the unimplemented-rule text,
\* empty details) and calls no evaluator.
C6_UnknownIdIsUnimplemented ==
    (pc = "returned" /\ ~(calledRule.idType = "number" /\ calledRule.id \in 1..19)) =>
        /\ outcome = [eligible |-> FALSE, creditAmount |-> Zero,
                      reasons |-> "unimplemented_rule", details |-> EmptyDetails]
        /\ invoked = "none"

\* the dispatcher returned for the string id "1" and a context rule 1 accepts
C6_Witness ==
    /\ pc = "returned"
    /\ calledRule.idType = "string"
    /\ calledRule.id = 1
    /\ ctx.employmentData.present
    /\ ctx.employmentData.employee_increase >= 1
    /\ outcome.reasons = "unimplemented_rule"

\* C7: for every rule id 1..19 and every context with integer fields the
\* returned creditAmount is an integer and is >= 0.
C7_CreditIsNonNegativeInteger ==
    ReturnedFor(1..19) =>
        /\ IsInteger(outcome.creditAmount)
        /\ IsNonNegative(outcome.creditAmount)

\* every bundle of the context is absent or empty
AllBundlesMissing(c) ==
    /\ c.employmentData \in {AbsentEmployment, EmptyEmployment}
    /\ c.investmentData \in {AbsentList, EmptyList}
    /\ c.rndData \in {AbsentList, EmptyList}
    /\ c.otherData \in {AbsentOther, EmptyOther}

\* C8: for every rule id 1..19 and every company, a context whose four
\* bundles are each absent or empty is evaluated to an outcome with
\* eligible = false and creditAmount = 0.
C8_MissingBundlesAreIneligible ==
    (ReturnedFor(1..19) /\ AllBundlesMissing(ctx)) =>
        /\ ~outcome.eligible
        /\ outcome.creditAmount = Zero
        /\ invoked = EvaluatorNames[calledRule.id]

\* rule 3 returned for a context with every bundle absent
C8_Witness ==
    /\ ReturnedFor({3})
    /\ ~ctx.employmentData.present
    /\ ~ctx.investmentData.present
    /\ ~ctx.rndData.present
    /\ ~ctx.otherData.present
    /\ outcome.reasons = "no_disabled_employees"

\* the tags each list rule counts, as the claim's rules 11-17 name them
MatchingTags(id) ==
    CASE id = 11 -> {"automation", "info_system", "measurement"}
      [] id = 12 -> {"energy_saving", "greenhouse_gas", "environmental"}
      [] id = 13 -> {"fire_prevention", "protective_gear", "workplace_improvement"}
      [] id = 14 -> {"smart_factory", "smart_factory_mes"}
      [] id = 15 -> {"general", "new_growth"}
      [] id = 16 -> {"design"}
      [] id = 17 -> {"new_tech"}

RECURSIVE MatchingTotal(_, _, _)
MatchingTotal(items, id, isInvestment) ==
    IF items = <<>> THEN 0
    ELSE (IF isInvestment
          THEN (IF Head(items).facility_type \in MatchingTags(id)
                THEN Head(items).investment_amount ELSE 0)
          ELSE (IF Head(items).rnd_type \in MatchingTags(id)
                THEN Head(items).expense_amount ELSE 0))
         + MatchingTotal(Tail(items), id, isInvestment)

\* the trigger input of rule id is absent, zero or negative in context c
TriggerMissing(id, c) ==
    LET e == c.employmentData
        o == c.otherData
    IN  CASE id = 1 -> ~e.present \/ e.employee_increase <= 0
          [] id = 2 -> ~e.present \/ e.youth_employees <= 0
          [] id = 3 -> ~e.present \/ e.disabled_employees <= 0
          [] id = 4 -> ~e.present \/ e.career_break_women <= 0
          [] id = 5 -> ~e.present \/ e.insurance_paid <= 0
          [] id = 6 -> ~o.present \/ o.business_income <= 0
          [] id = 7 -> ~o.present \/ o.startup_date = 0
          [] id = 8 -> ~o.present \/ ~o.relocation_completed
          [] id = 9 -> ~o.present \/ ~o.certification
          [] id = 10 -> ~o.present \/ o.startup_date = 0 \/ o.founder_age = 0
          [] id \in 11..14 -> ~c.investmentData.present
                              \/ MatchingTotal(c.investmentData.items, id, TRUE) <= 0
          [] id \in 15..17 -> ~c.rndData.present
                              \/ MatchingTotal(c.rndData.items, id, FALSE) <= 0
          [] id = 18 -> ~o.present \/ o.donation_amount <= 0
          [] id = 19 -> ~o.present \/ o.vehicle_count <= 0

\* C9: for every rule 1..19, when the rule's trigger input is absent, zero
\* or negative, the outcome is not eligible, has creditAmount 0 and a
\* non-empty reasons string.
C9_MissingTriggerIsIneligible ==
    (ReturnedFor(1..19) /\ TriggerMissing(calledRule.id, ctx)) =>
        /\ ~outcome.eligible
        /\ outcome.creditAmount = Zero
        /\ outcome.reasons # ""

\* the per-head amount of rule 1 by size class and capital-region flag
PerHeadTable(companyType, capital) ==
    CASE companyType = "SME" /\ capital = 0 -> 12000000
      [] companyType = "SME" /\ capital = 1 -> 11000000
      [] companyType = "MID" /\ capital = 0 -> 10000000
      [] companyType = "MID" /\ capital = 1 -> 9000000
      [] companyType = "LARGE" /\ capital = 0 -> 5000000
      [] companyType = "LARGE" /\ capital = 1 -> 4500000

\* C10: rule 1, for every size class, capital-region flag and head-count
\* increase n >= 1, is eligible with creditAmount = n x perHead; small-medium
\* non-capital n = 3 gives 36,000,000 and large capital n = 2 gives 9,000,000.
C10_EmploymentIncreaseCredit ==
    (ReturnedFor({1}) /\ ctx.employmentData.present
                      /\ ctx.employmentData.employee_increase >= 1) =>
        LET n == ctx.employmentData.employee_increase
            co == ctx.company
        IN  /\ outcome.eligible
            /\ outcome.creditAmount =
                   Num(n * PerHeadTable(co.company_type, co.is_capital_area))
            /\ (co.company_type = "SME" /\ co.is_capital_area = 0 /\ n = 3
                   => outcome.creditAmount = Num(36000000))
            /\ (co.company_type = "LARGE" /\ co.is_capital_area = 1 /\ n = 2
                   => outcome.creditAmount = Num(9000000))

\* rule 1 returned 36,000,000 for a small-medium non-capital company, n = 3
C10_Witness ==
    /\ ReturnedFor({1})
    /\ ctx.company.company_type = "SME"
    /\ ctx.company.is_capital_area = 0
    /\ ctx.employmentData.employee_increase = 3
    /\ outcome.eligible
    /\ outcome.creditAmount = Num(36000000)

\* n hundredths of an integer amount, computed from the product n * amount
Hundredths(amount, n) ==
    [w |-> (amount * n) \div 100, f |-> ((amount * n) % 100) * (Scale \div 100)]

\* C11: rule 5 is ineligible with creditAmount 0 for every mid-size or large
\* company whatever the employment bundle holds; for a small-medium company
\* with insurance_paid >= 1 it is eligible with creditAmount =
\* min(insurance_paid x 0.25, 1,000,000 x (employee_increase +
\* youth_employees)); paid 10,000,000, increase 2, youth 1 gives 2,500,000.
C11_SocialInsuranceCredit ==
    ReturnedFor({5}) =>
        LET e == ctx.employmentData
            raw == Hundredths(e.insurance_paid, 25)
            cap == Num(1000000 * (e.employee_increase + e.youth_employees))
        IN  /\ (ctx.company.company_type \in {"MID", "LARGE"} =>
                   ~outcome.eligible /\ outcome.creditAmount = Zero)
            /\ (ctx.company.company_type = "SME" /\ e.present /\ e.insurance_paid >= 1 =>
                   /\ outcome.eligible
                   /\ outcome.creditAmount = (IF Lt(raw, cap) THEN raw ELSE cap)
                   /\ (e.insurance_paid = 10000000 /\ e.employee_increase = 2
                          /\ e.youth_employees = 1
                          => outcome.creditAmount = Num(2500000)))

\* rule 5 returned for a small-medium company whose ceiling is below a
\* quarter of the contributions paid
C11_Witness ==
    /\ ReturnedFor({5})
    /\ ctx.company.company_type = "SME"
    /\ ctx.employmentData.insurance_paid = 10000000
    /\ ctx.employmentData.employee_increase = 1
    /\ ctx.employmentData.youth_employees = 1
    /\ outcome.eligible
    /\ outcome.creditAmount = Num(2000000)

\* the rate table of rule 15 as the claim states it, in percent
RndRateTable(category, companyType) ==
    CASE category = "general" /\ companyType = "SME" -> 25
      [] category = "general" /\ companyType = "MID" -> 15
      [] category = "general" /\ companyType = "LARGE" -> 5
      [] category = "new_growth" /\ companyType = "SME" -> 30
      [] category = "new_growth" /\ companyType = "MID" -> 20
      [] category = "new_growth" /\ companyType = "LARGE" -> 10

\* the sum over the general and new-growth items of expense x rate
RECURSIVE RndCreditExpected(_, _)
RndCreditExpected(items, companyType) ==
    IF items = <<>> THEN Zero
    ELSE IF Head(items).rnd_type \in {"general", "new_growth"}
    THEN Add(Hundredths(Head(items).expense_amount,
                        RndRateTable(Head(items).rnd_type, companyType)),
             RndCreditExpected(Tail(items), companyType))
    ELSE RndCreditExpected(Tail(items), companyType)

\* C12: rule 15 counts only the items of category general or new-growth
\* engine, and creditAmount is the sum over those items of expense x
\* rate(category, size), the rate taken per item; a small-medium company with
\* a general item of 10,000,000 and a new-growth item of 5,000,000 gets
\* 4,000,000; the outcome is the one the list without its other items gets.
C12_RndCreditPerItem ==
    (ReturnedFor({15}) /\ ctx.rndData.present) =>
        LET items == ctx.rndData.items
            counted(rnd) == rnd.rnd_type \in {"general", "new_growth"}
            alone == assessRndExpense(calledRule, ctx.company,
                                      [present |-> TRUE, items |-> SelectSeq(items, counted)])
        IN  /\ outcome.creditAmount = RndCreditExpected(items, ctx.company.company_type)
            /\ outcome.eligible = (SelectSeq(items, counted) # <<>>)
            /\ outcome.eligible = alone.eligible
            /\ outcome.creditAmount = alone.creditAmount
            /\ (ctx.company.company_type = "SME"
                  /\ items = <<[rnd_type |-> "general", expense_amount |-> 10000000],
                               [rnd_type |-> "new_growth", expense_amount |-> 5000000]>>
                  => outcome.creditAmount = Num(4000000))

\* rule 15 returned 4,000,000 for the mixed list of a small-medium company
C12_Witness ==
    /\ ReturnedFor({15})
    /\ ctx.company.company_type = "SME"
    /\ ctx.rndData.present
    /\ ctx.rndData.items = <<[rnd_type |-> "general", expense_amount |-> 10000000],
                             [rnd_type |-> "new_growth", expense_amount |-> 5000000]>>
    /\ outcome.eligible
    /\ outcome.creditAmount = Num(4000000)

\* C13: each of the R&D expense rules 15, 16 and 17 returns ineligible with
\* creditAmount 0 when the expenses of the items of its own categories sum
\* to less than 1,000,000.
C13_RndBelowMinimumIsIneligible ==
    (ReturnedFor(15..17) /\ ctx.rndData.present
        /\ MatchingTotal(ctx.rndData.items, calledRule.id, FALSE) < 1000000) =>
        /\ ~outcome.eligible
        /\ outcome.creditAmount = Zero

\* the minimum investment of a facility rule
FacilityMinimum(id) == IF id = 14 THEN 100000000 ELSE 10000000

\* the rate (percent) of a facility rule by size class, as the claim states it
FacilityRateTable(id, companyType) ==
    CASE id \in {11, 12} -> (CASE companyType = "SME" -> 10
                               [] companyType = "MID" -> 5
                               [] OTHER -> 3)
      [] id = 13 -> (CASE companyType = "SME" -> 10
                       [] companyType = "MID" -> 7
                       [] OTHER -> 3)
      [] id = 14 -> (CASE companyType = "SME" -> 15
                       [] companyType = "MID" -> 10
                       [] OTHER -> 5)

\* C14: each facility rule 11-14 sums the amounts of exactly the investment
\* items whose tag is in its own whitelist; it is ineligible with
\* creditAmount 0 when that sum is below 10,000,000 (rules 11-13) or
\* 100,000,000 (rule 14), and otherwise eligible with creditAmount = sum x
\* the rate of its size-keyed table; items outside the whitelist do not
\* change the outcome.
C14_FacilityCredit ==
    (ReturnedFor(11..14) /\ ctx.investmentData.present) =>
        LET id == calledRule.id
            items == ctx.investmentData.items
            listed(inv) == inv.facility_type \in MatchingTags(id)
            sum == MatchingTotal(items, id, TRUE)
            alone == assessRule(calledRule,
                                [ctx EXCEPT !.investmentData.items = SelectSeq(items, listed)])
        IN  /\ (sum < FacilityMinimum(id) =>
                   ~outcome.eligible /\ outcome.creditAmount = Zero)
            /\ (sum >= FacilityMinimum(id) =>
                   /\ outcome.eligible
                   /\ outcome.creditAmount =
                          Hundredths(sum, FacilityRateTable(id, ctx.company.company_type))
                   /\ outcome.details.total_investment = sum)
            /\ outcome.eligible = alone.eligible
            /\ outcome.creditAmount = alone.creditAmount

\* rule 13 returned 7% of 10,000,000 for a mid-size company whose list also
\* holds an item outside the whitelist
C14_Witness ==
    /\ ReturnedFor({13})
    /\ ctx.company.company_type = "MID"
    /\ ctx.investmentData.present
    /\ Len(ctx.investmentData.items) = 2
    /\ \E k \in 1..2 : ctx.investmentData.items[k].facility_type = "warehouse"
    /\ MatchingTotal(ctx.investmentData.items, 13, TRUE) = 10000000
    /\ outcome.eligible
    /\ outcome.creditAmount = Num(700000)

\* the smaller of two integers
Smaller(a, b) == IF a <= b THEN a ELSE b

\* C15: rule 19, for a vehicle count v >= 1, records in details eligible
\* depreciation = min(depreciation, 8,000,000 x v), eligible rental =
\* min(rental, 12,000,000 x v), eligible fuel = fuel, total_eligible = their
\* sum and limit_exceeded = (depreciation + rental + fuel) - total_eligible,
\* and returns creditAmount 0; v = 2, 20,000,000 / 10,000,000 / 3,000,000
\* gives 16,000,000 / 10,000,000 / 3,000,000, total 29,000,000, excess
\* 4,000,000.
C15_VehicleLimits ==
    (ReturnedFor({19}) /\ ctx.otherData.present /\ ctx.otherData.vehicle_count >= 1) =>
        LET o == ctx.otherData
            v == o.vehicle_count
            d == outcome.details
            dep == Smaller(o.depreciation_expense, 8000000 * v)
            ren == Smaller(o.rental_expense, 12000000 * v)
        IN  /\ outcome.eligible
            /\ outcome.creditAmount = Zero
            /\ d.depreciation.eligible = dep
            /\ d.rental.eligible = ren
            /\ d.fuel.eligible = o.fuel_expense
            /\ d.total_eligible = dep + ren + o.fuel_expense
            /\ d.limit_exceeded =
                   (o.depreciation_expense + o.rental_expense + o.fuel_expense)
                   - (dep + ren + o.fuel_expense)
            /\ (v = 2 /\ o.depreciation_expense = 20000000 /\ o.rental_expense = 10000000
                  /\ o.fuel_expense = 3000000
                  => /\ d.depreciation.eligible = 16000000
                     /\ d.rental.eligible = 10000000
                     /\ d.fuel.eligible = 3000000
                     /\ d.total_eligible = 29000000
                     /\ d.limit_exceeded = 4000000)

\* rule 19 returned for two vehicles whose depreciation is over its limit
\* and whose rental is under it
C15_Witness ==
    /\ ReturnedFor({19})
    /\ ctx.otherData.vehicle_count = 2
    /\ ctx.otherData.depreciation_expense = 20000000
    /\ ctx.otherData.rental_expense = 10000000
    /\ ctx.otherData.fuel_expense = 3000000
    /\ outcome.eligible
    /\ outcome.details.total_eligible = 29000000
    /\ outcome.details.limit_exceeded = 4000000

\* C16: rule 6 is ineligible for every mid-size or large company; for a
\* small-medium company with a business income, creditAmount = tax x rate,
\* rate 10% for manufacturing, mining, construction, wholesale and retail
\* and 5% for every other industry, tax the tax liability the caller
\* supplied whenever one is supplied and 10% of the business income only
\* when none is supplied.
C16_SmeSpecialReduction ==
    ReturnedFor({6}) =>
        LET o == ctx.otherData
            co == ctx.company
            rate == IF co.industry \in
                        {"manufacturing", "mining", "construction", "wholesale", "retail"}
                    THEN 10 ELSE 5
            tax == IF o.has_calculated_tax THEN Num(o.calculated_tax)
                   ELSE Hundredths(o.business_income, 10)
        IN  /\ (co.company_type \in {"MID", "LARGE"} =>
                   ~outcome.eligible /\ outcome.creditAmount = Zero)
            /\ (co.company_type = "SME" /\ o.present /\ o.business_income > 0 =>
                   /\ outcome.eligible
                   /\ outcome.creditAmount = MulPct(tax, rate))

\* C17: rule 7 is eligible exactly when a startup date is supplied and the
\* year of the evaluation minus the startup year is <= 5 (5 is eligible, 6
\* is not); when eligible, creditAmount = tax liability x 100% if the
\* youth-startup flag is set and x 50% otherwise, the tax liability being 0
\* when absent.
C17_StartupReduction ==
    ReturnedFor({7}) =>
        LET o == ctx.otherData
            within == o.present /\ o.startup_date # 0 /\ clockYear - o.startup_date <= 5
        IN  /\ outcome.eligible = within
            /\ (within =>
                   outcome.creditAmount =
                       IF o.is_youth_startup THEN Num(o.calculated_tax)
                       ELSE [w |-> o.calculated_tax \div 2,
                             f |-> (o.calculated_tax % 2) * (Scale \div 2)])
            /\ (o.present /\ o.startup_date # 0 /\ clockYear - o.startup_date = 5
                   => outcome.eligible)
            /\ (o.present /\ o.startup_date # 0 /\ clockYear - o.startup_date = 6
                   => ~outcome.eligible)

\* rule 7 returned half of the tax liability in the fifth year after startup
C17_Witness ==
    /\ ReturnedFor({7})
    /\ ctx.otherData.startup_date # 0
    /\ clockYear - ctx.otherData.startup_date = 5
    /\ ~ctx.otherData.is_youth_startup
    /\ ctx.otherData.calculated_tax = 1000001
    /\ outcome.eligible
    /\ outcome.creditAmount = [w |-> 500000, f |-> 5000]

\* C18: rule 10 is eligible exactly when a founder age is supplied and is
\* <= 34, a startup date is supplied, and the year of the evaluation minus
\* the startup year is <= 5; when eligible, creditAmount = min(tax
\* liability, 200,000,000), so it never exceeds 200,000,000.
C18_YouthStartupReduction ==
    ReturnedFor({10}) =>
        LET o == ctx.otherData
            qualifies == /\ o.present
                         /\ o.founder_age # 0 /\ o.founder_age <= 34
                         /\ o.startup_date # 0 /\ clockYear - o.startup_date <= 5
        IN  /\ outcome.eligible = qualifies
            /\ (qualifies =>
                   outcome.creditAmount = Num(Smaller(o.calculated_tax, 200000000)))
            /\ ~Lt(Num(200000000), outcome.creditAmount)

\* rule 10 returned the ceiling for a tax liability of 300,000,000
C18_Witness ==
    /\ ReturnedFor({10})
    /\ ctx.otherData.founder_age = 34
    /\ ctx.otherData.calculated_tax = 300000000
    /\ clockYear - ctx.otherData.startup_date = 5
    /\ outcome.eligible
    /\ outcome.creditAmount = Num(200000000)

\* C19: rule 18, for a donation amount d > 0 and a business income i, takes
\* the eligible amount min(d, i x L), L = 100% for statutory donations and
\* 30% for every other or absent donation type, and returns creditAmount =
\* eligible amount x 15%; so creditAmount exceeds neither 15% of d nor 15%
\* of i x L.
C19_DonationCredit ==
    (ReturnedFor({18}) /\ ctx.otherData.present /\ ctx.otherData.donation_amount > 0) =>
        LET o == ctx.otherData
            d == Num(o.donation_amount)
            limit == Hundredths(o.business_income,
                                IF o.donation_type = "statutory" THEN 100 ELSE 30)
            eligibleAmount == IF Lt(limit, d) THEN limit ELSE d
        IN  /\ outcome.eligible
            /\ outcome.details.eligible_amount = eligibleAmount
            /\ outcome.creditAmount = MulPct(eligibleAmount, 15)
            /\ ~Lt(MulPct(d, 15), outcome.creditAmount)
            /\ ~Lt(MulPct(limit, 15), outcome.creditAmount)

\* rule 18 returned 15% of the 30% income limit for a donation above it
C19_Witness ==
    /\ ReturnedFor({18})
    /\ ctx.otherData.donation_amount = 5000000
    /\ ctx.otherData.donation_type = ""
    /\ ctx.otherData.business_income = 10000000
    /\ outcome.eligible
    /\ outcome.details.eligible_amount = Num(3000000)
    /\ outcome.creditAmount = Num(450000)

\* C20: rule 8 is eligible exactly when the relocation-completed flag is
\* set, the company's industry is manufacturing and the company is not in
\* the capital region; when eligible creditAmount = 100% of the tax
\* liability (0 when absent); failing any one of the three conditions gives
\* ineligible with creditAmount 0.
C20_ManufacturingRelocation ==
    ReturnedFor({8}) =>
        LET o == ctx.otherData
            co == ctx.company
            moved == /\ o.present /\ o.relocation_completed
                     /\ co.industry = "manufacturing"
                     /\ co.is_capital_area = 0
        IN  /\ outcome.eligible = moved
            /\ (moved => outcome.creditAmount = Num(o.calculated_tax))
            /\ (~moved => outcome.creditAmount = Zero)

\* rule 8 returned the whole tax liability for a manufacturer outside the
\* capital region that completed its relocation
C20_Witness ==
    /\ ReturnedFor({8})
    /\ ctx.otherData.relocation_completed
    /\ ctx.company.industry = "manufacturing"
    /\ ctx.company.is_capital_area = 0
    /\ ctx.otherData.calculated_tax = 1000001
    /\ outcome.eligible
    /\ outcome.creditAmount = Num(1000001)

\* C21: rule 9 is eligible exactly when the certification flag is set;
\* creditAmount = tax liability x 100% when the certification type is social
\* enterprise and x 50% for any other or absent certification type.
C21_SocialEnterpriseReduction ==
    ReturnedFor({9}) =>
        LET o == ctx.otherData
            certified == o.present /\ o.certification
        IN  /\ outcome.eligible = certified
            /\ (certified =>
                   outcome.creditAmount =
                       IF o.certification_type = "social" THEN Num(o.calculated_tax)
                       ELSE [w |-> o.calculated_tax \div 2,
                             f |-> (o.calculated_tax % 2) * (Scale \div 2)])
            /\ (~certified => outcome.creditAmount = Zero)

\* rule 9 returned half of the tax liability for a certificate without a type
C21_Witness ==
    /\ ReturnedFor({9})
    /\ ctx.otherData.certification
    /\ ctx.otherData.certification_type = ""
    /\ ctx.otherData.calculated_tax = 1000001
    /\ outcome.eligible
    /\ outcome.creditAmount = [w |-> 500000, f |-> 5000]

\* C22: rule 2, for youth hires n >= 1, gives creditAmount = n x 12,000,000
\* (small-medium), n x 10,000,000 (mid-size) or n x 5,000,000 (large), and
\* the outcome is the same for the company in and outside the capital region.
C22_YouthEmploymentCredit ==
    (ReturnedFor({2}) /\ ctx.employmentData.present
                      /\ ctx.employmentData.youth_employees >= 1) =>
        LET n == ctx.employmentData.youth_employees
            perHead == CASE ctx.company.company_type = "SME" -> 12000000
                         [] ctx.company.company_type = "MID" -> 10000000
                         [] ctx.company.company_type = "LARGE" -> 5000000
            elsewhere == [ctx EXCEPT !.company.is_capital_area = 1 - @]
        IN  /\ outcome.eligible
            /\ outcome.creditAmount = Num(n * perHead)
            /\ outcome = assessRule(calledRule, elsewhere)

\* rule 2 returned 24,000,000 for two youth hires of a small-medium company
\* in the capital region
C22_Witness ==
    /\ ReturnedFor({2})
    /\ ctx.company.company_type = "SME"
    /\ ctx.company.is_capital_area = 1
    /\ ctx.employmentData.youth_employees = 2
    /\ outcome.eligible
    /\ outcome.creditAmount = Num(24000000)

\* C23: for a head count n >= 1, rule 3 gives creditAmount = 9,600,000 x n
\* and rule 4 gives creditAmount = 11,000,000 x n, for every size class and
\* region; rule 4 records max_years = 2 in details and does not reduce the
\* credit because of it.
C23_FlatPerHeadCredits ==
    /\ (ReturnedFor({3}) /\ ctx.employmentData.present
                         /\ ctx.employmentData.disabled_employees >= 1) =>
           /\ outcome.eligible
           /\ outcome.creditAmount = Num(9600000 * ctx.employmentData.disabled_employees)
    /\ (ReturnedFor({4}) /\ ctx.employmentData.present
                         /\ ctx.employmentData.career_break_women >= 1) =>
           /\ outcome.eligible
           /\ outcome.creditAmount = Num(11000000 * ctx.employmentData.career_break_women)
           /\ outcome.details.max_years = 2

\* rule 4 returned 33,000,000 for three career-break women
C23_Witness ==
    /\ ReturnedFor({4})
    /\ ctx.employmentData.career_break_women = 3
    /\ outcome.eligible
    /\ outcome.details.max_years = 2
    /\ outcome.creditAmount = Num(33000000)

\* the rate (percent) of rules 16 and 17 by size class, as the claim states it
ExpenseRateTable(id, companyType) ==
    CASE id = 16 -> (CASE companyType = "SME" -> 25
                       [] companyType = "MID" -> 15
                       [] OTHER -> 5)
      [] id = 17 -> (CASE companyType = "SME" -> 30
                       [] companyType = "MID" -> 20
                       [] OTHER -> 10)

\* C24: rule 16 counts only design items and rule 17 only new-technology
\* items; each sums the matching expenses, is ineligible when the sum is
\* below 1,000,000, and otherwise gives creditAmount = sum x rate, rate by
\* size 25/15/5% (rule 16) and 30/20/10% (rule 17).
C24_DesignAndNewTechnologyCredit ==
    (ReturnedFor(16..17) /\ ctx.rndData.present) =>
        LET id == calledRule.id
            sum == MatchingTotal(ctx.rndData.items, id, FALSE)
        IN  /\ (sum < 1000000 => ~outcome.eligible /\ outcome.creditAmount = Zero)
            /\ (sum >= 1000000 =>
                   /\ outcome.eligible
                   /\ outcome.details.total_expense = sum
                   /\ outcome.creditAmount =
                          Hundredths(sum, ExpenseRateTable(id, ctx.company.company_type)))

\* rule 17 returned 20% of 1,200,000 for a mid-size company
C24_Witness ==
    /\ ReturnedFor({17})
    /\ ctx.company.company_type = "MID"
    /\ MatchingTotal(ctx.rndData.items, 17, FALSE) = 1200000
    /\ outcome.eligible
    /\ outcome.creditAmount = Num(240000)

C25_RegistrationIdempotent ==
    /\ \A i, j \in 1..Len(companies) :
           companies[i].business_number = companies[j].business_number => i = j
    /\ \A r \in DOMAIN registrations :
           registrations[r].pc = "responded" =>
               /\ registrations[r].response.success
               /\ registrations[r].response.status = 200
               /\ \E k \in 1..Len(companies) :
                      /\ companies[k].business_number =
                             registrations[r].body.business_number
                      /\ companies[k].id = registrations[r].response.id

\* the stored rows and sessions invocation a inserted
RowsOf(a) == {row \in assessment_results : row.run = a}

SessionsOf(a) == {k \in 1..Len(assessment_sessions) : assessment_sessions[k].run = a}

\* C26: every finished assessment request that stored anything has stored
\* exactly one result row per catalog rule and exactly one session row, the
\* session row holding the run's totalCredit and eligibleCount; after a
\* finished request (success or error) no result rows of its run are stored
\* without its session row.
C26_RunStoredWhole ==
    \A a \in DOMAIN assessments :
        (assessments[a].pc = "responded" /\ (RowsOf(a) # {} \/ SessionsOf(a) # {})) =>
            /\ \A k \in 1..CatalogSize :
                   Cardinality({row \in RowsOf(a) : row.credit_rule_id = taxRules[k].id}) = 1
            /\ Cardinality(RowsOf(a)) = CatalogSize
            /\ Cardinality(SessionsOf(a)) = 1
            /\ \A k \in SessionsOf(a) :
                   /\ assessment_sessions[k].total_credit_amount =
                          assessments[a].totalCreditAmount
                   /\ assessment_sessions[k].eligible_count = assessments[a].eligibleCount

RECURSIVE SumEligibleRows(_)
SumEligibleRows(rows) ==
    IF rows = {} THEN Zero
    ELSE LET row == CHOOSE x \in rows : TRUE
         IN  Add(IF row.is_eligible = 1 THEN row.credit_amount ELSE Zero,
                 SumEligibleRows(rows \ {row}))

\* C28: a results query made after k >= 1 successful assessment runs for
\* its company and year (and no failed or running one) is answered with a
\* session whose total_credit_amount is the sum of credit_amount over the
\* returned rows with is_eligible = 1 and whose eligible_count is the
\* number of those rows.
C28_QueryConsistent ==
    \A q \in DOMAIN queries :
        (queries[q].pc = "responded" /\ queries[q].quiet) =>
            /\ queries[q].session # NoSession
            /\ queries[q].session.total_credit_amount = SumEligibleRows(queries[q].results)
            /\ queries[q].session.eligible_count =
                   Cardinality({row \in queries[q].results : row.is_eligible = 1})

\* C30: whatever nextStep, prevStep and submitAssessment calls were made
\* and however the awaited registrations interleave with them, currentStep
\* is within 1..5, currentStep > 1 only when some registerCompany() call
\* succeeded and companyId is set, and no assessment request was sent with
\* a null companyId.
C30_WizardGated ==
    /\ currentStep \in 1..totalSteps
    /\ currentStep > 1 =>
           /\ companyId # 0
           /\ \E k \in DOMAIN calls : calls[k].registered
    /\ \A i \in DOMAIN sent : sent[i] # 0
    /\ (companyId = 0) => (sent = <<>>)

C30_Witness ==
    /\ currentStep = totalSteps
    /\ sent # <<>>
    /\ Len(sent) < Cardinality({k \in DOMAIN calls : calls[k].op = "submitAssessment"})
    /\ \E k \in DOMAIN calls : calls[k].registered

====
